---- MODULE Spec2Model ----
(***************************************************************************)
(* Attended (warm) transfer of the SignalWire controller and the service   *)
(* methods it chains: holdOriginalParticipant, createConsultationCall      *)
(* (dial + logCallStatus), addConsultationCallToConference and             *)
(* unholdOriginalParticipant.                                              *)
(*                                                                         *)
(* Every `await` of the source is a point where the handler is suspended:  *)
(* the request is in flight (pending), the provider or the database acts,  *)
(* and the handler continues with the reply.  Code between two awaits runs *)
(* atomically (single-threaded event loop).                                *)
(***************************************************************************)
EXTENDS Naturals, Integers, Sequences, FiniteSets, TLC

\* ------------------------------------------------------------------ bounds
NumRuns == 2                     \* concurrent attendedTransfer requests

Runs == 1..NumRuns

\* ------------------------------------------------------------ input values
ConferenceSids   == {"CF1", "CF2"}
OriginalCallSids == {"CA1"}
FromNumbers      == {"+15550001"}
ToNumbers        == {"+15550002"}
ConsultUrls      == {"https://bin/consult"}

\* a field the JSON body does not carry is falsy; "" stands for all of them
MISSING == ""

Bodies ==
  [conferenceSid   : ConferenceSids \cup {MISSING},
   originalCallSid : OriginalCallSids \cup {MISSING},
   consultFrom     : FromNumbers \cup {MISSING},
   consultTo       : ToNumbers \cup {MISSING},
   consultUrl      : ConsultUrls \cup {MISSING}]

NoBody ==
  [conferenceSid |-> MISSING, originalCallSid |-> MISSING,
   consultFrom |-> MISSING, consultTo |-> MISSING, consultUrl |-> MISSING]

\* SQL NULL of a text column and of the integer column call_duration
NULL     == "NULL"
NULL_INT == 0 - 1

\* ---------------------------------------------------------------- state
VARIABLES
  pc,          \* pc[r]: the await at which run r of attendedTransfer is suspended
  body,        \* body[r]: req.body of run r, once validated
  response,    \* response[r]: dial's local `response` (sid, status) of calls.create
  consultCall, \* consultCall[r]: consultCallSid returned by createConsultationCall
  res,         \* res[r]: the HTTP response of run r
  issued,      \* issued[r]: call-control requests run r has sent, in order
  outcome,     \* outcome[r]: "ok"/"fail" of each service step that has returned
  queries,     \* queries[r]: call_sid of each call_logs statement run r has sent
  pending,     \* call-control requests in flight to the provider
  replies,     \* provider replies not yet consumed by the awaiting handler
  hold,        \* provider: hold[<<conferenceSid, callSid>>] participant hold flag
  legs,        \* provider: call legs created by calls.create
  nextSid,     \* provider: number of call sids handed out
  call_logs,   \* table call_logs: a set of rows
  clock,       \* database NOW()
  emitted,     \* messages emitted on ioServer, in order
  wh,          \* wh[d]: the handler serving delivery d (operation, payload, await)
  store0,      \* table call_logs as it was before the first delivery
  did_numbers, \* table public.did_numbers
  ring_groups, \* table public.ring_groups
  combined_leads \* table app.combined_leads

transferVars == <<pc, body, response, consultCall, res, issued, outcome, queries>>
providerVars == <<pending, replies, hold, legs, nextSid>>
storeVars    == <<call_logs, clock>>
handlerVars  == <<wh, store0, did_numbers, ring_groups, combined_leads>>
vars == <<transferVars, providerVars, storeVars, emitted, handlerVars>>

\* ------------------------------------------------- call-control requests
\* one request to the provider's REST API, as it goes on the wire
Request(r, api, conferenceSid, callSid, Hold, Status, from, to, url) ==
  [run |-> r, api |-> api, conferenceSid |-> conferenceSid, callSid |-> callSid,
   Hold |-> Hold, Status |-> Status, from |-> from, to |-> to, url |-> url]

\* axios.post(`/Conferences/${conferenceSid}/Participants/${callSid}`, data)
updateParticipant(r, conferenceSid, callSid, data) ==
  Request(r, "participant.update", conferenceSid, callSid, data, "", "", "", "")

holdOriginalParticipant(r, conferenceSid, callSid) ==
  updateParticipant(r, conferenceSid, callSid, "true")

unholdOriginalParticipant(r, conferenceSid, callSid) ==
  updateParticipant(r, conferenceSid, callSid, "false")

\* signalWireClient.calls.create({url, from, to, ...})
dial(r, from, to, url) ==
  Request(r, "calls.create", "", "", "", "", from, to, url)

createConsultationCall(r, fromNumber, consultNumber, consultUrl) ==
  dial(r, fromNumber, consultNumber, consultUrl)

\* signalWireClient.calls(callSid).update({method: "POST", url: lamlBinUrl, ...})
addParticipantToConference(r, callSid, lamlBinUrl) ==
  Request(r, "calls.update", "", callSid, "", "", "", "", lamlBinUrl)

\* conferenceSid is logged and echoed in the result, but not sent to the provider
addConsultationCallToConference(r, conferenceSid, consultCallSid, lamlBinUrl) ==
  addParticipantToConference(r, consultCallSid, lamlBinUrl)

\* axios.post(`/Calls/${callSid}`, {Status: status, Url: url})
updateCall(r, callSid, status, url) ==
  Request(r, "call.status", "", callSid, "", status, "", "", url)

hangupCall(r, callSid) == updateCall(r, callSid, "completed", "")

LAML_BIN_URL_FOR_CONFERENCE == "https://your-laml-bin.com/whatever"

\* the conference the LaML document served at that fixed URL dials into
LamlBinConference == "CF1"

\* ------------------------------------------------------- error messages
updateParticipantError == "Failed to update participant"
dialError == "Failed to initiate call"
addParticipantToConferenceError == "Failed to add participant"

holdOriginalParticipantError ==
  "Failed to hold original participant: " \o updateParticipantError
createConsultationCallError ==
  "Failed to create consultation call: " \o dialError
addConsultationCallToConferenceError ==
  "Failed to add consultation call: " \o addParticipantToConferenceError

\* mutant: the catch block of unholdOriginalParticipant copied from hold
unholdOriginalParticipantError_Copied ==
  "Failed to hold original participant: " \o updateParticipantError

unholdOriginalParticipantError ==
  "Failed to unhold original participant: " \o updateParticipantError

ValidationMessage ==
  "conferenceSid, originalCallSid, consultFrom, consultTo, consultUrl are required"
CompleteMessage ==
  "Attended transfer complete (original unheld, consult call bridged)"

NoResponse == [status |-> 0, error |-> "", message |-> ""]
\* res.status(code).json({ error })
JsonError(code, msg) == [status |-> code, error |-> msg, message |-> ""]
\* res.status(code).json({ message })
JsonMessage(code, msg) == [status |-> code, error |-> "", message |-> msg]

\* ------------------------------------------------------- Call Log Store
\* JS `x || null` on a text argument and on the numeric callDuration
OrNull(x) == IF x \in {"", NULL} THEN NULL ELSE x
OrNullInt(n) == IF n \in {0, NULL_INT} THEN NULL_INT ELSE n

\* mutant: ON CONFLICT also sets direction, from_number and to_number
logCallStatusQuery_Direction(table, now, callSid, callStatus, direction, from, to, callDuration, recordingUrl, participantSid, conferenceSid) ==
  LET conflict == {row \in table : row.call_sid = callSid}
      excluded ==
        [call_sid |-> callSid, call_status |-> callStatus,
         direction |-> direction, from_number |-> from, to_number |-> to,
         call_duration |-> OrNullInt(callDuration),
         recording_url |-> OrNull(recordingUrl),
         participant_sid |-> OrNull(participantSid),
         conference_sid |-> OrNull(conferenceSid),
         timestamp |-> now]
  IN IF conflict = {} THEN table \cup {excluded}
     ELSE (table \ conflict) \cup
          {[excluded EXCEPT !.recording_url =
                               IF OrNull(recordingUrl) # NULL
                               THEN @ ELSE row.recording_url]
             : row \in conflict}

\* INSERT INTO call_logs ... ON CONFLICT (call_sid) DO UPDATE SET ...
logCallStatusQuery(table, now, callSid, callStatus, direction, from, to, callDuration, recordingUrl, participantSid, conferenceSid) ==
  LET excluded ==
        [call_sid |-> callSid, call_status |-> callStatus,
         direction |-> direction, from_number |-> from, to_number |-> to,
         call_duration |-> OrNullInt(callDuration),
         recording_url |-> OrNull(recordingUrl),
         participant_sid |-> OrNull(participantSid),
         conference_sid |-> OrNull(conferenceSid),
         timestamp |-> now]
      conflict == {row \in table : row.call_sid = callSid}
      update(row) ==
        [row EXCEPT !.call_status = excluded.call_status,
                    !.call_duration = excluded.call_duration,
                    !.participant_sid = excluded.participant_sid,
                    !.conference_sid = excluded.conference_sid,
                    !.timestamp = excluded.timestamp,
                    !.recording_url = IF OrNull(recordingUrl) # NULL
                                      THEN excluded.recording_url ELSE @]
  IN IF conflict = {} THEN table \cup {excluded}
     ELSE (table \ conflict) \cup {update(row) : row \in conflict}

\* this.ioServer.emit(channel, {callSid, status, from, to})
Message(channel, callSid, status, from, to) ==
  [channel |-> channel, callSid |-> callSid, status |-> status,
   from |-> from, to |-> to]

\* -------------------------------------------------------------- provider
ConsultSid(n) == "CS" \o ToString(n)
InitialCallStatus == "queued"

Reply(q, ok, sid, status) ==
  [run |-> q.run, api |-> q.api, ok |-> ok, sid |-> sid, status |-> status]

\* POST /Conferences/{conferenceSid}/Participants/{callSid}: sets the hold flag
ProviderUpdateParticipant(q, ok) ==
  /\ q \in pending /\ q.api = "participant.update"
  /\ pending' = pending \ {q}
  /\ replies' = replies \cup {Reply(q, ok, q.callSid, "")}
  /\ hold' = IF ok
             THEN [hold EXCEPT ![<<q.conferenceSid, q.callSid>>] = (q.Hold = "true")]
             ELSE hold
  /\ UNCHANGED <<legs, nextSid>>
  /\ UNCHANGED <<transferVars, storeVars, emitted, handlerVars>>

\* POST /Calls: creates a new outbound call leg and returns its sid
ProviderCallsCreate(q, ok) ==
  /\ q \in pending /\ q.api = "calls.create"
  /\ pending' = pending \ {q}
  /\ IF ok
     THEN /\ nextSid' = nextSid + 1
          /\ legs' = legs \cup {[sid |-> ConsultSid(nextSid'), from |-> q.from,
                                 to |-> q.to, url |-> q.url,
                                 status |-> InitialCallStatus,
                                 conferenceSid |-> NULL]}
          /\ replies' = replies \cup
                          {Reply(q, TRUE, ConsultSid(nextSid'), InitialCallStatus)}
     ELSE /\ replies' = replies \cup {Reply(q, FALSE, "", "")}
          /\ UNCHANGED <<legs, nextSid>>
  /\ UNCHANGED hold
  /\ UNCHANGED <<transferVars, storeVars, emitted, handlerVars>>

\* POST /Calls/{callSid} with Url: the leg runs the LaML document at the url,
\* which joins the conference that document names
ProviderCallsUpdate(q, ok) ==
  /\ q \in pending /\ q.api = "calls.update"
  /\ pending' = pending \ {q}
  /\ replies' = replies \cup {Reply(q, ok, q.callSid, "")}
  /\ legs' = IF ok
             THEN {IF l.sid = q.callSid
                   THEN [l EXCEPT !.url = q.url,
                                  !.conferenceSid =
                                     IF q.url = LAML_BIN_URL_FOR_CONFERENCE
                                     THEN LamlBinConference ELSE @]
                   ELSE l : l \in legs}
             ELSE legs
  /\ UNCHANGED <<hold, nextSid>>
  /\ UNCHANGED <<transferVars, storeVars, emitted, handlerVars>>

\* ------------------------------------------- SignalWireController.attendedTransfer
NoCall == [sid |-> "", status |-> ""]

Send(r, q) ==
  /\ pending' = pending \cup {q}
  /\ issued' = [issued EXCEPT ![r] = Append(@, q)]

\* the reply the handler of run r is awaiting
Awaited(r, y) == y \in replies /\ y.run = r

StepOk(r)   == outcome' = [outcome EXCEPT ![r] = Append(@, "ok")]
StepFail(r) == outcome' = [outcome EXCEPT ![r] = Append(@, "fail")]

\* catch (error) { res.status(500).json({ error: error.message }) }
Catch(r, msg) ==
  /\ res' = [res EXCEPT ![r] = JsonError(500, msg)]
  /\ pc' = [pc EXCEPT ![r] = "done"]

\* if (!conferenceSid || !originalCallSid || !consultFrom || !consultTo || !consultUrl)
AnyMissing(b) ==
  \/ b.conferenceSid = MISSING \/ b.originalCallSid = MISSING
  \/ b.consultFrom = MISSING \/ b.consultTo = MISSING
  \/ b.consultUrl = MISSING

\* mutant: the validation forgets consultUrl
attendedTransfer_NoUrlCheck(r, b) ==
  /\ pc[r] = "idle"
  /\ IF \/ b.conferenceSid = MISSING \/ b.originalCallSid = MISSING
        \/ b.consultFrom = MISSING \/ b.consultTo = MISSING
     THEN /\ res' = [res EXCEPT ![r] = JsonError(400, ValidationMessage)]
          /\ pc' = [pc EXCEPT ![r] = "done"]
          /\ UNCHANGED <<body, issued, pending>>
     ELSE /\ body' = [body EXCEPT ![r] = b]
          /\ Send(r, holdOriginalParticipant(r, b.conferenceSid, b.originalCallSid))
          /\ pc' = [pc EXCEPT ![r] = "hold"]
          /\ UNCHANGED res
  /\ UNCHANGED <<response, consultCall, outcome, queries>>
  /\ UNCHANGED <<replies, hold, legs, nextSid>>
  /\ UNCHANGED <<storeVars, emitted, handlerVars>>

\* mutant: a per-conference lock, a transfer is refused to start while another
\* run is in progress on the same conference
attendedTransfer_Locked(r, b) ==
  /\ pc[r] = "idle"
  /\ \A o \in Runs \ {r} :
       pc[o] \in {"idle", "done"} \/ body[o].conferenceSid # b.conferenceSid
  /\ IF \/ b.conferenceSid = MISSING \/ b.originalCallSid = MISSING
        \/ b.consultFrom = MISSING \/ b.consultTo = MISSING
        \/ b.consultUrl = MISSING
     THEN /\ res' = [res EXCEPT ![r] = JsonError(400, ValidationMessage)]
          /\ pc' = [pc EXCEPT ![r] = "done"]
          /\ UNCHANGED <<body, issued, pending>>
     ELSE /\ body' = [body EXCEPT ![r] = b]
          /\ Send(r, holdOriginalParticipant(r, b.conferenceSid, b.originalCallSid))
          /\ pc' = [pc EXCEPT ![r] = "hold"]
          /\ UNCHANGED res
  /\ UNCHANGED <<response, consultCall, outcome, queries>>
  /\ UNCHANGED <<replies, hold, legs, nextSid>>
  /\ UNCHANGED <<storeVars, emitted, handlerVars>>

\* mutant: holdOriginalParticipant is not awaited, the dial goes out at once
attendedTransfer_NoAwait(r, b) ==
  /\ pc[r] = "idle"
  /\ IF \/ b.conferenceSid = MISSING \/ b.originalCallSid = MISSING
        \/ b.consultFrom = MISSING \/ b.consultTo = MISSING
        \/ b.consultUrl = MISSING
     THEN /\ res' = [res EXCEPT ![r] = JsonError(400, ValidationMessage)]
          /\ pc' = [pc EXCEPT ![r] = "done"]
          /\ UNCHANGED <<body, issued, pending>>
     ELSE /\ body' = [body EXCEPT ![r] = b]
          /\ pending' = pending \cup
               {holdOriginalParticipant(r, b.conferenceSid, b.originalCallSid),
                createConsultationCall(r, b.consultFrom, b.consultTo, b.consultUrl)}
          /\ issued' = [issued EXCEPT ![r] =
               <<holdOriginalParticipant(r, b.conferenceSid, b.originalCallSid),
                 createConsultationCall(r, b.consultFrom, b.consultTo,
                                        b.consultUrl)>>]
          /\ pc' = [pc EXCEPT ![r] = "dial"]
          /\ UNCHANGED res
  /\ UNCHANGED <<response, consultCall, outcome, queries>>
  /\ UNCHANGED <<replies, hold, legs, nextSid>>
  /\ UNCHANGED <<storeVars, emitted, handlerVars>>

\* POST /call/transfer/attended: validate, then 1) hold the original participant
attendedTransfer(r, b) ==
  /\ pc[r] = "idle"
  /\ IF \/ b.conferenceSid = MISSING \/ b.originalCallSid = MISSING
        \/ b.consultFrom = MISSING \/ b.consultTo = MISSING
        \/ b.consultUrl = MISSING
     THEN /\ res' = [res EXCEPT ![r] = JsonError(400, ValidationMessage)]
          /\ pc' = [pc EXCEPT ![r] = "done"]
          /\ UNCHANGED <<body, issued, pending>>
     ELSE /\ body' = [body EXCEPT ![r] = b]
          /\ Send(r, holdOriginalParticipant(r, b.conferenceSid, b.originalCallSid))
          /\ pc' = [pc EXCEPT ![r] = "hold"]
          /\ UNCHANGED res
  /\ UNCHANGED <<response, consultCall, outcome, queries>>
  /\ UNCHANGED <<replies, hold, legs, nextSid>>
  /\ UNCHANGED <<storeVars, emitted, handlerVars>>

\* mutant: a failed hold is compensated with an unhold before the error is sent
HoldReturned_Compensate(r) ==
  /\ pc[r] = "hold"
  /\ \E y \in replies :
       /\ Awaited(r, y)
       /\ replies' = replies \ {y}
       /\ IF y.ok
          THEN /\ StepOk(r)
               /\ Send(r, createConsultationCall(r, body[r].consultFrom,
                                                 body[r].consultTo,
                                                 body[r].consultUrl))
               /\ pc' = [pc EXCEPT ![r] = "dial"]
               /\ UNCHANGED res
          ELSE /\ StepFail(r)
               /\ Send(r, unholdOriginalParticipant(r, body[r].conferenceSid,
                                                    body[r].originalCallSid))
               /\ Catch(r, holdOriginalParticipantError)
  /\ UNCHANGED <<body, response, consultCall, queries>>
  /\ UNCHANGED <<hold, legs, nextSid>>
  /\ UNCHANGED <<storeVars, emitted, handlerVars>>

\* mutant: a successful hold is logged to call_logs the way hold() logs "paused"
HoldReturned_Logged(r) ==
  /\ pc[r] = "hold"
  /\ \E y \in replies :
       /\ Awaited(r, y)
       /\ replies' = replies \ {y}
       /\ IF y.ok
          THEN /\ StepOk(r)
               /\ call_logs' = logCallStatusQuery(call_logs, clock,
                                  body[r].originalCallSid, "paused", "outbound",
                                  "", "", NULL_INT, NULL, NULL, NULL)
               /\ clock' = clock + 1
               /\ queries' = [queries EXCEPT ![r] =
                                 Append(@, body[r].originalCallSid)]
               /\ emitted' = Append(emitted,
                               Message("outbound-call-status",
                                       body[r].originalCallSid, "paused", "", ""))
               /\ Send(r, createConsultationCall(r, body[r].consultFrom,
                                                 body[r].consultTo,
                                                 body[r].consultUrl))
               /\ pc' = [pc EXCEPT ![r] = "dial"]
               /\ UNCHANGED res
          ELSE /\ StepFail(r)
               /\ Catch(r, holdOriginalParticipantError)
               /\ UNCHANGED <<issued, pending, queries>>
               /\ UNCHANGED <<storeVars, emitted>>
  /\ UNCHANGED <<body, response, consultCall>>
  /\ UNCHANGED <<hold, legs, nextSid, handlerVars>>

\* holdOriginalParticipant returns or throws; on success 2) dial the consult call
HoldReturned(r) ==
  /\ pc[r] = "hold"
  /\ \E y \in replies :
       /\ Awaited(r, y)
       /\ replies' = replies \ {y}
       /\ IF y.ok
          THEN /\ StepOk(r)
               /\ Send(r, createConsultationCall(r, body[r].consultFrom,
                                                 body[r].consultTo,
                                                 body[r].consultUrl))
               /\ pc' = [pc EXCEPT ![r] = "dial"]
               /\ UNCHANGED res
          ELSE /\ StepFail(r)
               /\ Catch(r, holdOriginalParticipantError)
               /\ UNCHANGED <<issued, pending>>
  /\ UNCHANGED <<body, response, consultCall, queries>>
  /\ UNCHANGED <<hold, legs, nextSid>>
  /\ UNCHANGED <<storeVars, emitted, handlerVars>>

\* dial: calls.create returns or throws; on success dial awaits logCallStatus
CallsCreateReturned(r) ==
  /\ pc[r] = "dial"
  /\ \E y \in replies :
       /\ Awaited(r, y)
       /\ replies' = replies \ {y}
       /\ IF y.ok
          THEN /\ response' = [response EXCEPT ![r] =
                                  [sid |-> y.sid, status |-> y.status]]
               /\ queries' = [queries EXCEPT ![r] = Append(@, y.sid)]
               /\ pc' = [pc EXCEPT ![r] = "dialLog"]
               /\ UNCHANGED <<res, outcome>>
          ELSE /\ StepFail(r)
               /\ Catch(r, createConsultationCallError)
               /\ UNCHANGED <<response, queries>>
  /\ UNCHANGED <<body, consultCall, issued>>
  /\ UNCHANGED <<pending, hold, legs, nextSid>>
  /\ UNCHANGED <<storeVars, emitted, handlerVars>>

\* dial: logCallStatus(response.sid, response.status, "outbound", from, to)
\* returns or throws; on success createConsultationCall returns and the
\* controller goes on to 3) add the consult call to the conference
LogCallStatusReturned(r, ok) ==
  /\ pc[r] = "dialLog"
  /\ IF ok
     THEN /\ call_logs' = logCallStatusQuery(call_logs, clock, response[r].sid,
                             response[r].status, "outbound",
                             body[r].consultFrom, body[r].consultTo,
                             NULL_INT, NULL, NULL, NULL)
          /\ clock' = clock + 1
          /\ emitted' = Append(emitted,
                          Message("outbound-call-status", response[r].sid,
                                  response[r].status, body[r].consultFrom,
                                  body[r].consultTo))
          /\ consultCall' = [consultCall EXCEPT ![r] = response[r].sid]
          /\ StepOk(r)
          /\ Send(r, addConsultationCallToConference(r, body[r].conferenceSid,
                        consultCall'[r], LAML_BIN_URL_FOR_CONFERENCE))
          /\ pc' = [pc EXCEPT ![r] = "bridge"]
          /\ UNCHANGED res
     ELSE /\ StepFail(r)
          /\ Catch(r, createConsultationCallError)
          /\ UNCHANGED <<consultCall, issued, pending>>
          /\ UNCHANGED <<storeVars, emitted>>
  /\ UNCHANGED <<body, response, queries>>
  /\ UNCHANGED <<replies, hold, legs, nextSid, handlerVars>>

\* mutant: a failed bridge is retried instead of failing the step
BridgeReturned_Retry(r) ==
  /\ pc[r] = "bridge"
  /\ \E y \in replies :
       /\ Awaited(r, y)
       /\ replies' = replies \ {y}
       /\ IF y.ok
          THEN /\ StepOk(r)
               /\ Send(r, unholdOriginalParticipant(r, body[r].conferenceSid,
                                                    body[r].originalCallSid))
               /\ pc' = [pc EXCEPT ![r] = "unhold"]
          ELSE /\ Send(r, addConsultationCallToConference(r,
                             body[r].conferenceSid, consultCall[r],
                             LAML_BIN_URL_FOR_CONFERENCE))
               /\ UNCHANGED <<outcome, pc>>
  /\ UNCHANGED <<body, response, consultCall, queries, res>>
  /\ UNCHANGED <<hold, legs, nextSid>>
  /\ UNCHANGED <<storeVars, emitted, handlerVars>>

\* mutant: a failed bridge hangs up the orphaned consultation call
BridgeReturned_Hangup(r) ==
  /\ pc[r] = "bridge"
  /\ \E y \in replies :
       /\ Awaited(r, y)
       /\ replies' = replies \ {y}
       /\ IF y.ok
          THEN /\ StepOk(r)
               /\ Send(r, unholdOriginalParticipant(r, body[r].conferenceSid,
                                                    body[r].originalCallSid))
               /\ pc' = [pc EXCEPT ![r] = "unhold"]
               /\ UNCHANGED res
          ELSE /\ StepFail(r)
               /\ Send(r, hangupCall(r, consultCall[r]))
               /\ Catch(r, addConsultationCallToConferenceError)
  /\ UNCHANGED <<body, response, consultCall, queries>>
  /\ UNCHANGED <<hold, legs, nextSid>>
  /\ UNCHANGED <<storeVars, emitted, handlerVars>>

\* addConsultationCallToConference returns or throws; on success 4) unhold
BridgeReturned(r) ==
  /\ pc[r] = "bridge"
  /\ \E y \in replies :
       /\ Awaited(r, y)
       /\ replies' = replies \ {y}
       /\ IF y.ok
          THEN /\ StepOk(r)
               /\ Send(r, unholdOriginalParticipant(r, body[r].conferenceSid,
                                                    body[r].originalCallSid))
               /\ pc' = [pc EXCEPT ![r] = "unhold"]
               /\ UNCHANGED res
          ELSE /\ StepFail(r)
               /\ Catch(r, addConsultationCallToConferenceError)
               /\ UNCHANGED <<issued, pending>>
  /\ UNCHANGED <<body, response, consultCall, queries>>
  /\ UNCHANGED <<hold, legs, nextSid>>
  /\ UNCHANGED <<storeVars, emitted, handlerVars>>

\* mutant: no catch around step 4, a failed unhold leaves the request unanswered
UnholdReturned_NoCatch(r) ==
  /\ pc[r] = "unhold"
  /\ \E y \in replies :
       /\ Awaited(r, y)
       /\ replies' = replies \ {y}
       /\ IF y.ok
          THEN /\ StepOk(r)
               /\ res' = [res EXCEPT ![r] = JsonMessage(200, CompleteMessage)]
               /\ pc' = [pc EXCEPT ![r] = "done"]
          ELSE /\ StepFail(r)
               /\ pc' = [pc EXCEPT ![r] = "unanswered"]
               /\ UNCHANGED res
  /\ UNCHANGED <<body, response, consultCall, issued, queries>>
  /\ UNCHANGED <<pending, hold, legs, nextSid>>
  /\ UNCHANGED <<storeVars, emitted, handlerVars>>

\* unholdOriginalParticipant returns or throws; on success respond 200
UnholdReturned(r) ==
  /\ pc[r] = "unhold"
  /\ \E y \in replies :
       /\ Awaited(r, y)
       /\ replies' = replies \ {y}
       /\ IF y.ok
          THEN /\ StepOk(r)
               /\ res' = [res EXCEPT ![r] = JsonMessage(200, CompleteMessage)]
               /\ pc' = [pc EXCEPT ![r] = "done"]
          ELSE /\ StepFail(r)
               /\ Catch(r, unholdOriginalParticipantError)
  /\ UNCHANGED <<body, response, consultCall, issued, queries>>
  /\ UNCHANGED <<pending, hold, legs, nextSid>>
  /\ UNCHANGED <<storeVars, emitted, handlerVars>>

\* ------------------------------------------------------ webhook deliveries
NumDeliveries == 2               \* concurrent deliveries and service calls
Deliveries == 1..NumDeliveries

RecordingUrl1 == "https://rec/1"
RecordingUrl2 == "https://rec/2"

\* the record a participant-join followed by a recording event leaves
Row0 ==
  [call_sid |-> "CA1", call_status |-> "in-progress", direction |-> "inbound",
   from_number |-> "+15550001", to_number |-> "+15550002",
   call_duration |-> 30, recording_url |-> RecordingUrl1,
   participant_sid |-> NULL, conference_sid |-> "CF1", timestamp |-> 0]

NoRow == [Row0 EXCEPT !.call_sid = "", !.call_status = "", !.direction = "",
                      !.from_number = "", !.to_number = "",
                      !.call_duration = NULL_INT, !.recording_url = "",
                      !.conference_sid = "", !.participant_sid = "",
                      !.timestamp = NULL_INT]

\* req.body of a webhook delivery; a field the provider did not send is MISSING
\* (NULL_INT for Timestamp)
NoPayload ==
  [StatusCallbackEvent |-> MISSING, CallSid |-> MISSING,
   ConferenceSid |-> MISSING, CallStatus |-> MISSING, Direction |-> MISSING,
   From |-> MISSING, To |-> MISSING, CallDuration |-> MISSING,
   RecordingUrl |-> MISSING, RecordingDuration |-> MISSING,
   participantSid |-> MISSING, Timestamp |-> NULL_INT]

CallEvent(callSid, callStatus) ==
  [NoPayload EXCEPT !.CallSid = callSid, !.CallStatus = callStatus,
                    !.Direction = "outbound", !.From = "+15550001",
                    !.To = "+15550002"]

StatusOnly == [NoPayload EXCEPT !.CallSid = "CA1", !.CallStatus = "completed"]

CallStatusPayloads ==
  { StatusOnly,
    [StatusOnly EXCEPT !.Timestamp = 50],
    [CallEvent("CA1", "completed") EXCEPT !.CallDuration = "45",
                                          !.RecordingUrl = RecordingUrl2] }

VoiceStatusPayloads ==
  { CallEvent("CA1", "ringing"),
    CallEvent("CA1", "Completed"),
    [CallEvent("CA1", "completed") EXCEPT !.CallDuration = "45"] }

RecordingEvent(callSid, conferenceSid, url) ==
  [NoPayload EXCEPT !.CallSid = callSid, !.ConferenceSid = conferenceSid,
                    !.RecordingUrl = url, !.RecordingDuration = "45"]

RecordingPayloads ==
  { RecordingEvent("CA1", MISSING, RecordingUrl2),
    RecordingEvent(MISSING, "CF1", RecordingUrl2),
    RecordingEvent("CA2", "CF1", RecordingUrl2),
    RecordingEvent("CA1", MISSING, MISSING),
    RecordingEvent(MISSING, MISSING, RecordingUrl2) }

HandleVoicePayloads ==
  { [CallEvent("CA1", "ringing") EXCEPT !.participantSid = "PA1"] }

CallIds == {"CA1"}

\* parseInt(s, 10) of a decimal string
parseInt(s) == CHOOSE n \in 0..99 : ToString(n) = s

\* a JS value that is undefined reaches the database as NULL
Param(x) == IF x = MISSING THEN NULL ELSE x

\* `CallDuration ? parseInt(CallDuration, 10) : null` on the field as sent
DurationOrNull(s) == IF s = MISSING THEN NULL_INT ELSE parseInt(s)

\* the parameters of one statement on call_logs
Values(callSid, callStatus, direction, from, to, callDuration, recordingUrl, participantSid, conferenceSid, timestamp) ==
  [callSid |-> callSid, callStatus |-> callStatus, direction |-> direction,
   from |-> from, to |-> to, callDuration |-> callDuration,
   recordingUrl |-> recordingUrl, participantSid |-> participantSid,
   conferenceSid |-> conferenceSid, timestamp |-> timestamp]

NoValues == Values("", "", "", "", "", NULL_INT, "", "", "", NULL_INT)

\* logCallStatus(callSid, callStatus, direction, from, to) and its optional
\* arguments, left undefined by a caller that omits them
LogCallStatusValues(callSid, callStatus, direction, from, to, callDuration, recordingUrl, conferenceSid) ==
  Values(callSid, callStatus, direction, from, to, callDuration, recordingUrl,
         MISSING, conferenceSid, NULL_INT)

\* the statement of logCallStatus, run at database time `now`
logCallStatus(table, now, v) ==
  logCallStatusQuery(table, now, v.callSid, v.callStatus, v.direction, v.from,
                     v.to, v.callDuration, v.recordingUrl, v.participantSid,
                     v.conferenceSid)

\* values of callStatusUpdate(data): Timestamp || new Date().toISOString(),
\* CallDuration ? parseInt(CallDuration, 10) : null
CallStatusUpdateValues(data, today, callDuration) ==
  Values(data.CallSid, data.CallStatus, Param(data.Direction),
         Param(data.From), Param(data.To), callDuration,
         Param(data.RecordingUrl), NULL, NULL,
         IF data.Timestamp = NULL_INT THEN today ELSE data.Timestamp)

\* mutant: the update adds the reported duration to the stored one
callStatusUpdateQuery_Incremental(table, v) ==
  LET conflict == {row \in table : row.call_sid = v.callSid}
  IN IF conflict = {}
     THEN table \cup {[call_sid |-> v.callSid, call_status |-> v.callStatus,
                       direction |-> v.direction, from_number |-> v.from,
                       to_number |-> v.to, call_duration |-> v.callDuration,
                       recording_url |-> v.recordingUrl,
                       participant_sid |-> NULL, conference_sid |-> NULL,
                       timestamp |-> v.timestamp]}
     ELSE (table \ conflict) \cup
          {[row EXCEPT !.call_status = v.callStatus,
                       !.timestamp = v.timestamp,
                       !.call_duration =
                          IF v.callDuration = NULL_INT THEN @
                          ELSE (IF @ = NULL_INT THEN 0 ELSE @) + v.callDuration,
                       !.recording_url = v.recordingUrl] : row \in conflict}

\* INSERT INTO public.call_logs (call_sid, call_status, timestamp, direction,
\* from_number, to_number, call_duration, recording_url) ... ON CONFLICT
\* (call_sid) DO UPDATE SET call_status, timestamp, call_duration,
\* recording_url = EXCLUDED.* RETURNING *
callStatusUpdateQuery(table, v) ==
  LET excluded ==
        [call_sid |-> v.callSid, call_status |-> v.callStatus,
         direction |-> v.direction, from_number |-> v.from,
         to_number |-> v.to, call_duration |-> v.callDuration,
         recording_url |-> v.recordingUrl,
         participant_sid |-> NULL, conference_sid |-> NULL,
         timestamp |-> v.timestamp]
      conflict == {row \in table : row.call_sid = v.callSid}
  IN IF conflict = {} THEN table \cup {excluded}
     ELSE (table \ conflict) \cup
          {[row EXCEPT !.call_status = excluded.call_status,
                       !.timestamp = excluded.timestamp,
                       !.call_duration = excluded.call_duration,
                       !.recording_url = excluded.recording_url]
             : row \in conflict}

\* result.rows[0] of a statement with RETURNING *
Returning(table, callSid) ==
  IF \E row \in table : row.call_sid = callSid
  THEN CHOOSE row \in table : row.call_sid = callSid
  ELSE NoRow

\* UPDATE public.call_logs SET recording_url = $1, call_duration = $2
\* WHERE call_sid = $3 OR conference_sid = $3
recordingUpdateMatches(table, sid) ==
  {row \in table : row.call_sid = sid \/ row.conference_sid = sid}

recordingUpdateQuery(table, url, duration, sid) ==
  (table \ recordingUpdateMatches(table, sid)) \cup
  {[row EXCEPT !.recording_url = url, !.call_duration = duration]
     : row \in recordingUpdateMatches(table, sid)}

\* INSERT INTO call_logs (call_sid, call_status, from_number, to_number,
\* call_duration, recording_url, participant_sid, timestamp) of
\* handleVoiceStatusCallback
insertCallLog(table, now, p) ==
  table \cup {[call_sid |-> p.CallSid, call_status |-> p.CallStatus,
               direction |-> NULL, from_number |-> Param(p.From),
               to_number |-> Param(p.To),
               call_duration |-> DurationOrNull(p.CallDuration),
               recording_url |-> Param(p.RecordingUrl),
               participant_sid |-> Param(p.participantSid),
               conference_sid |-> NULL, timestamp |-> now]}

\* endedStatuses.includes(CallStatus.toLowerCase())
toLowerCase(s) ==
  CASE s = "Completed" -> "completed"
    [] s = "Assigned" -> "assigned"
    [] s = "Free" -> "free"
    [] OTHER -> s
endedStatuses == {"completed", "canceled", "busy", "failed", "no-answer"}

\* mutant: the end of a call is announced on a channel of its own name
CallEnded_Renamed(callSid, status) ==
  Message("call-" \o status, callSid, status, "", "")

\* this.ioServer.emit("call-ended", {callSid, status})
CallEnded(callSid, status) == Message("call-ended", callSid, status, "", "")

\* -------------------------------------------------------- webhook handlers
\* an invocation of a handler: its input, where it is suspended, what it has
\* read so far, and the directory lookups it has awaited and the messages it
\* has passed to ioServer.emit, in order
NoHandler ==
  [op |-> "", impl |-> "", p |-> NoPayload, pc |-> "idle", values |-> NoValues,
   lead |-> "", row |-> NoRow, ret |-> "", error |-> "",
   lookups |-> <<>>, published |-> <<>>]

Idle(d) == wh[d].pc = "idle"

\* the handler of delivery d starts and runs to its first await
Start(d, op, impl, p, at, v) ==
  wh' = [wh EXCEPT ![d] = [NoHandler EXCEPT !.op = op, !.impl = impl, !.p = p,
                                           !.pc = at, !.values = v]]

\* the handler goes on to its next await, sending statement v where it has one
Await(d, at, v) == wh' = [wh EXCEPT ![d].pc = at, ![d].values = v]

\* the handler returns `row`
Return(d, row) ==
  wh' = [wh EXCEPT ![d].pc = "done", ![d].ret = "ok", ![d].row = row]

\* the handler throws, or its controller answers with an error
Throw(d, msg) ==
  wh' = [wh EXCEPT ![d].pc = "done", ![d].ret = "error", ![d].error = msg]

\* mutant: every message is emitted twice
Emit_Twice(d, next, ms) ==
  /\ wh' = [wh EXCEPT ![d] = [next EXCEPT !.published = @ \o ms \o ms]]
  /\ emitted' = emitted \o ms \o ms

\* this.ioServer.emit for each message of ms, in order, then `next` as the
\* handler's state
Emit(d, next, ms) ==
  /\ wh' = [wh EXCEPT ![d] = [next EXCEPT !.published = @ \o ms]]
  /\ emitted' = emitted \o ms

\* the handler's state once it has returned `row`, or thrown `msg`
Done(h, row) == [h EXCEPT !.pc = "done", !.ret = "ok", !.row = row]
Failed(h, msg) == [h EXCEPT !.pc = "done", !.ret = "error", !.error = msg]

\* the result of a directory query the handler awaited
Lookup(table, phoneNumber, ok) ==
  [table |-> table, phoneNumber |-> phoneNumber, ok |-> ok]
LookedUp(h, table, phoneNumber, ok) ==
  [h EXCEPT !.lookups = Append(@, Lookup(table, phoneNumber, ok))]

\* the status a webhook controller answers the provider with once the service
\* call of invocation h has settled: res.status(200) after the await,
\* res.status(500) in the catch block
ResStatus(h) == IF h.ret = "ok" THEN 200 ELSE 500

holdError == "Failed to hold call"
resumeError == "Failed to resume call"
hangupError == "Failed to hang up call"
callStatusUpdateError == "Failed to update call status"
voiceStatusCallbackError == "Failed to process voice status callback"
statusCallbackError == "Failed to process status callback"
recordingSidError == "Missing callSid or conferenceSid"
recordingUrlError == "Missing RecordingUrl"
recordingMatchError == "No matching record found"
queryError == "query failed"
logCallStatusError == "Failed to insert call log into database"
incomingCallNotificationError == "Error receiving webhook data"

\* the status hold, resume and hangup ask the provider for and then log
StatusOf(op) ==
  CASE op = "hold" -> "paused"
    [] op = "resume" -> "in-progress"
    [] OTHER -> "completed"

ErrorOf(op) ==
  CASE op = "hold" -> holdError
    [] op = "resume" -> resumeError
    [] op = "hangup" -> hangupError
    [] op = "SignalWireController.voiceStatusCallback" -> statusCallbackError
    [] OTHER -> incomingCallNotificationError

\* the values of the statement a handler sends for payload p when the
\* application's clock reads `today`:
\*   hold, resume, hangup: logCallStatus(callId, status, "outbound", "", "")
\*   SignalWireController.voiceStatusCallback: logCallStatus(CallSid,
\*     CallStatus, Direction, From, To, CallDuration ? parseInt(CallDuration,
\*     10) : undefined, recordingUrl)
\*   callStatusUpdate: callStatusUpdate(req.body)
\*   voiceStatusCallback: callStatusUpdate({..., Timestamp: new Date()
\*     .toISOString(), CallDuration: callDurationParsed, RecordingUrl:
\*     recordingUrl}), where callDurationParsed is a number and 0 is falsy
StatementOf(op, p, today) ==
  CASE op \in {"hold", "resume", "hangup"} ->
         LogCallStatusValues(p.CallSid, StatusOf(op), "outbound", "", "",
                             NULL_INT, MISSING, MISSING)
    [] op = "SignalWireController.voiceStatusCallback" ->
         LogCallStatusValues(p.CallSid, p.CallStatus, Param(p.Direction),
                             Param(p.From), Param(p.To),
                             DurationOrNull(p.CallDuration), MISSING, MISSING)
    [] op = "callStatusUpdate" ->
         CallStatusUpdateValues(p, today, DurationOrNull(p.CallDuration))
    [] op = "voiceStatusCallback" ->
         CallStatusUpdateValues([p EXCEPT !.Timestamp = today,
                                          !.RecordingUrl = MISSING],
                                today,
                                OrNullInt(DurationOrNull(p.CallDuration)))
    [] OTHER -> NoValues

\* SignalWireService.hold(callId): POST /Calls/{callId} Status=paused
SignalWireService_hold(d, callId) ==
  /\ Idle(d)
  /\ Start(d, "hold", "original", [NoPayload EXCEPT !.CallSid = callId],
           "call", NoValues)
  /\ UNCHANGED <<transferVars, providerVars, storeVars, emitted>>
  /\ UNCHANGED <<store0, did_numbers, ring_groups, combined_leads>>

\* SignalWireService.resume(callId): POST /Calls/{callId} Status=in-progress
SignalWireService_resume(d, callId) ==
  /\ Idle(d)
  /\ Start(d, "resume", "original", [NoPayload EXCEPT !.CallSid = callId],
           "call", NoValues)
  /\ UNCHANGED <<transferVars, providerVars, storeVars, emitted>>
  /\ UNCHANGED <<store0, did_numbers, ring_groups, combined_leads>>

\* SignalWireService.hangup(conferenceSid): calls(conferenceSid).update
SignalWireService_hangup(d, conferenceSid) ==
  /\ Idle(d)
  /\ Start(d, "hangup", "original",
           [NoPayload EXCEPT !.CallSid = conferenceSid], "call", NoValues)
  /\ UNCHANGED <<transferVars, providerVars, storeVars, emitted>>
  /\ UNCHANGED <<store0, did_numbers, ring_groups, combined_leads>>

\* the provider answers hold, resume or hangup; on success the handler logs
\* the status with logCallStatus(callId, status, "outbound", "", "")
CallUpdated(d, ok) ==
  /\ wh[d].pc = "call"
  /\ IF ok
     THEN Await(d, "logCallStatus", StatementOf(wh[d].op, wh[d].p, clock))
     ELSE Throw(d, ErrorOf(wh[d].op))
  /\ UNCHANGED <<transferVars, providerVars, storeVars, emitted>>
  /\ UNCHANGED <<store0, did_numbers, ring_groups, combined_leads>>

\* SignalWireController.voiceStatusCallback: logCallStatus(CallSid, CallStatus,
\* Direction, From, To, CallDuration ? parseInt(CallDuration, 10) : undefined,
\* recordingUrl)
SignalWireController_voiceStatusCallback(d, p) ==
  /\ Idle(d)
  /\ Start(d, "SignalWireController.voiceStatusCallback", "original", p,
           "logCallStatus",
           StatementOf("SignalWireController.voiceStatusCallback", p, clock))
  /\ UNCHANGED <<transferVars, providerVars, storeVars, emitted>>
  /\ UNCHANGED <<store0, did_numbers, ring_groups, combined_leads>>

\* StatusService.callStatusUpdate(req.body)
callStatusUpdate(d, p) ==
  /\ Idle(d)
  /\ Start(d, "callStatusUpdate", "refactored", p, "callStatusUpdate",
           StatementOf("callStatusUpdate", p, clock))
  /\ UNCHANGED <<transferVars, providerVars, storeVars, emitted>>
  /\ UNCHANGED <<store0, did_numbers, ring_groups, combined_leads>>

\* StatusService.voiceStatusCallback: callStatusUpdate({..., Timestamp: new
\* Date().toISOString(), CallDuration: callDurationParsed, RecordingUrl:
\* recordingUrl}); callDurationParsed is a number, and 0 is falsy
voiceStatusCallback(d, p) ==
  /\ Idle(d)
  /\ Start(d, "voiceStatusCallback", "refactored", p, "callStatusUpdate",
           StatementOf("voiceStatusCallback", p, clock))
  /\ UNCHANGED <<transferVars, providerVars, storeVars, emitted>>
  /\ UNCHANGED <<store0, did_numbers, ring_groups, combined_leads>>

\* sidUsedForLookup = CallSid || ConferenceSid
sidUsedForLookup(p) == IF p.CallSid # MISSING THEN p.CallSid ELSE p.ConferenceSid

\* StatusService.recordingStatusCallback(req.body), up to its statement
recordingStatusCallback(d, p) ==
  /\ Idle(d)
  /\ IF p.CallSid = MISSING /\ p.ConferenceSid = MISSING
     THEN wh' = [wh EXCEPT ![d] =
                   [NoHandler EXCEPT !.op = "recordingStatusCallback",
                      !.impl = "refactored", !.p = p, !.pc = "done",
                      !.ret = "error", !.error = recordingSidError]]
     ELSE IF p.RecordingUrl = MISSING
     THEN wh' = [wh EXCEPT ![d] =
                   [NoHandler EXCEPT !.op = "recordingStatusCallback",
                      !.impl = "refactored", !.p = p, !.pc = "done",
                      !.ret = "error", !.error = recordingUrlError]]
     ELSE Start(d, "recordingStatusCallback", "refactored", p, "update",
                Values(sidUsedForLookup(p), "", "", "", "",
                       DurationOrNull(p.RecordingDuration), p.RecordingUrl,
                       "", "", NULL_INT))
  /\ UNCHANGED <<transferVars, providerVars, storeVars, emitted>>
  /\ UNCHANGED <<store0, did_numbers, ring_groups, combined_leads>>

\* SignalWireService.handleVoiceStatusCallback(payload), up to its SELECT
handleVoiceStatusCallback(d, p) ==
  /\ Idle(d)
  /\ Start(d, "handleVoiceStatusCallback", "original", p, "select", NoValues)
  /\ UNCHANGED <<transferVars, providerVars, storeVars, emitted>>
  /\ UNCHANGED <<store0, did_numbers, ring_groups, combined_leads>>

\* result.rows[0] of a statement: undefined unless it has a RETURNING clause
rows0(returning, table, callSid) ==
  IF returning THEN Returning(table, callSid) ELSE NoRow

OutboundCallStatus(v) ==
  Message("outbound-call-status", v.callSid, v.callStatus, v.from, v.to)

\* mutant: the status is compared as the provider spelled it
Ended_CaseSensitive(p) == p.CallStatus \in endedStatuses

Ended(p) == toLowerCase(p.CallStatus) \in endedStatuses

\* mutant: a failed upsert is swallowed, and a participant-join goes on to
\* its lookups
LogCallStatusQuery_Masked(d, ok) ==
  /\ wh[d].pc = "logCallStatus"
  /\ IF ok
     THEN /\ call_logs' = logCallStatus(call_logs, clock, wh[d].values)
          /\ clock' = clock + 1
          /\ Emit(d,
                  IF wh[d].op = "incomingCallNotification"
                  THEN [wh[d] EXCEPT !.pc = "lead",
                                     !.row = rows0(FALSE, call_logs',
                                                   wh[d].values.callSid)]
                  ELSE Done(wh[d],
                            rows0(FALSE, call_logs', wh[d].values.callSid)),
                  IF wh[d].op = "SignalWireController.voiceStatusCallback"
                     /\ Ended(wh[d].p)
                  THEN <<OutboundCallStatus(wh[d].values),
                         CallEnded(wh[d].p.CallSid, wh[d].p.CallStatus)>>
                  ELSE <<OutboundCallStatus(wh[d].values)>>)
     ELSE /\ IF wh[d].op = "incomingCallNotification"
             THEN wh' = [wh EXCEPT ![d].pc = "lead"]
             ELSE Throw(d, ErrorOf(wh[d].op))
          /\ UNCHANGED <<storeVars, emitted>>
  /\ UNCHANGED <<transferVars, providerVars>>
  /\ UNCHANGED <<store0, did_numbers, ring_groups, combined_leads>>

\* mutant: outbound-call-status is emitted before the statement is awaited,
\* so it is out even when the write fails
LogCallStatusQuery_EmitFirst(d, ok) ==
  /\ wh[d].pc = "logCallStatus"
  /\ IF ok
     THEN /\ call_logs' = logCallStatus(call_logs, clock, wh[d].values)
          /\ clock' = clock + 1
          /\ Emit(d,
                  IF wh[d].op = "incomingCallNotification"
                  THEN [wh[d] EXCEPT !.pc = "lead",
                                     !.row = rows0(FALSE, call_logs',
                                                   wh[d].values.callSid)]
                  ELSE Done(wh[d],
                            rows0(FALSE, call_logs', wh[d].values.callSid)),
                  IF wh[d].op = "SignalWireController.voiceStatusCallback"
                     /\ Ended(wh[d].p)
                  THEN <<OutboundCallStatus(wh[d].values),
                         CallEnded(wh[d].p.CallSid, wh[d].p.CallStatus)>>
                  ELSE <<OutboundCallStatus(wh[d].values)>>)
     ELSE /\ Emit(d, Failed(wh[d], ErrorOf(wh[d].op)),
                  <<OutboundCallStatus(wh[d].values)>>)
          /\ UNCHANGED storeVars
  /\ UNCHANGED <<transferVars, providerVars>>
  /\ UNCHANGED <<store0, did_numbers, ring_groups, combined_leads>>

\* the statement of logCallStatus completes or fails, and the caller goes on:
\* logCallStatus emits outbound-call-status and returns (the original returns
\* nothing, the refactored one result.rows[0] of a statement that has no
\* RETURNING clause); hold, resume and hangup return; the voice status
\* controller emits call-ended for an ended status and answers; a
\* participant-join goes on to look the caller up
LogCallStatusQuery(d, ok) ==
  /\ wh[d].pc = "logCallStatus"
  /\ IF ok
     THEN /\ call_logs' = logCallStatus(call_logs, clock, wh[d].values)
          /\ clock' = clock + 1
          /\ Emit(d,
                  IF wh[d].op = "incomingCallNotification"
                  THEN [wh[d] EXCEPT !.pc = "lead",
                                     !.row = rows0(FALSE, call_logs',
                                                   wh[d].values.callSid)]
                  ELSE Done(wh[d],
                            rows0(FALSE, call_logs', wh[d].values.callSid)),
                  IF wh[d].op = "SignalWireController.voiceStatusCallback"
                     /\ Ended(wh[d].p)
                  THEN <<OutboundCallStatus(wh[d].values),
                         CallEnded(wh[d].p.CallSid, wh[d].p.CallStatus)>>
                  ELSE <<OutboundCallStatus(wh[d].values)>>)
     ELSE /\ Throw(d, ErrorOf(wh[d].op))
          /\ UNCHANGED <<storeVars, emitted>>
  /\ UNCHANGED <<transferVars, providerVars>>
  /\ UNCHANGED <<store0, did_numbers, ring_groups, combined_leads>>

\* the statement of callStatusUpdate completes or fails: callStatusUpdate
\* returns result.rows[0]; voiceStatusCallback then emits call-ended
CallStatusUpdateQuery(d, ok) ==
  /\ wh[d].pc = "callStatusUpdate"
  /\ IF ok
     THEN /\ call_logs' = callStatusUpdateQuery(call_logs, wh[d].values)
          /\ clock' = clock + 1
          /\ Emit(d,
                  Done(wh[d], rows0(TRUE, call_logs', wh[d].values.callSid)),
                  IF wh[d].op = "voiceStatusCallback" /\ Ended(wh[d].p)
                  THEN <<CallEnded(wh[d].p.CallSid, wh[d].p.CallStatus)>>
                  ELSE <<>>)
     ELSE /\ Throw(d, IF wh[d].op = "voiceStatusCallback"
                      THEN voiceStatusCallbackError
                      ELSE callStatusUpdateError)
          /\ UNCHANGED <<storeVars, emitted>>
  /\ UNCHANGED <<transferVars, providerVars>>
  /\ UNCHANGED <<store0, did_numbers, ring_groups, combined_leads>>

\* mutant: a recording for a call with no record creates the record
RecordingUpdateQuery_Upsert(d, ok) ==
  /\ wh[d].pc = "update"
  /\ IF ok
     THEN /\ call_logs' =
               IF recordingUpdateMatches(call_logs, wh[d].values.callSid) = {}
               THEN insertCallLog(call_logs, clock,
                                  [wh[d].p EXCEPT !.CallSid =
                                                    wh[d].values.callSid])
               ELSE recordingUpdateQuery(call_logs,
                                         wh[d].values.recordingUrl,
                                         wh[d].values.callDuration,
                                         wh[d].values.callSid)
          /\ Return(d, NoRow)
     ELSE /\ Throw(d, queryError)
          /\ UNCHANGED call_logs
  /\ UNCHANGED <<transferVars, providerVars, clock, emitted>>
  /\ UNCHANGED <<store0, did_numbers, ring_groups, combined_leads>>

\* the UPDATE of recordingStatusCallback completes or fails; rowCount 0 throws
RecordingUpdateQuery(d, ok) ==
  /\ wh[d].pc = "update"
  /\ IF ok
     THEN /\ call_logs' = recordingUpdateQuery(call_logs,
                             wh[d].values.recordingUrl,
                             wh[d].values.callDuration, wh[d].values.callSid)
          /\ IF recordingUpdateMatches(call_logs, wh[d].values.callSid) = {}
             THEN Throw(d, recordingMatchError)
             ELSE Return(d, NoRow)
     ELSE /\ Throw(d, queryError)
          /\ UNCHANGED call_logs
  /\ UNCHANGED <<transferVars, providerVars, clock, emitted>>
  /\ UNCHANGED <<store0, did_numbers, ring_groups, combined_leads>>

\* the SELECT of handleVoiceStatusCallback returns: existingCallLog.rowCount
\* > 0 chooses the UPDATE, otherwise the INSERT
SelectQuery(d, ok) ==
  /\ wh[d].pc = "select"
  /\ IF ok
     THEN IF \E row \in call_logs : row.call_sid = wh[d].p.CallSid
          THEN Await(d, "updateLog", NoValues)
          ELSE Await(d, "insert", NoValues)
     ELSE Throw(d, queryError)
  /\ UNCHANGED <<transferVars, providerVars, storeVars, emitted>>
  /\ UNCHANGED <<store0, did_numbers, ring_groups, combined_leads>>

\* mutant: call_sid has no unique index, the INSERT succeeds whatever is stored
WriteQuery_NoUniqueIndex(d, ok) ==
  /\ wh[d].pc \in {"updateLog", "insert"}
  /\ IF ok /\ wh[d].pc = "insert"
     THEN /\ call_logs' = insertCallLog(call_logs, clock, wh[d].p)
          /\ clock' = clock + 1
          /\ Return(d, NoRow)
     ELSE /\ Throw(d, queryError)
          /\ UNCHANGED storeVars
  /\ UNCHANGED <<transferVars, providerVars, emitted>>
  /\ UNCHANGED <<store0, did_numbers, ring_groups, combined_leads>>

\* the second statement of handleVoiceStatusCallback: the UPDATE is not valid
\* SQL (no comma before timestamp, six placeholders and four values) and so
\* always fails; the INSERT fails on call_sid's unique index if a row for the
\* call has appeared since the SELECT
WriteQuery(d, ok) ==
  /\ wh[d].pc \in {"updateLog", "insert"}
  /\ IF /\ ok
        /\ wh[d].pc = "insert"
        /\ ~ \E row \in call_logs : row.call_sid = wh[d].p.CallSid
     THEN /\ call_logs' = insertCallLog(call_logs, clock, wh[d].p)
          /\ clock' = clock + 1
          /\ Return(d, NoRow)
     ELSE /\ Throw(d, queryError)
          /\ UNCHANGED storeVars
  /\ UNCHANGED <<transferVars, providerVars, emitted>>
  /\ UNCHANGED <<store0, did_numbers, ring_groups, combined_leads>>

\* ------------------------------------------------ incomingCallNotification
NumEvents == 1                   \* lifecycle events delivered concurrently
Events == 1..NumEvents

CallerNumber == "+15550001"
CalleeNumber == "+15550002"

\* rows of public.did_numbers, public.ring_groups and app.combined_leads
DidNumber(status) ==
  [phone_number |-> CalleeNumber, status |-> status, assigned_user |-> "alice"]
RingGroup0 ==
  [phone_number |-> CalleeNumber, ring_group |-> "sales",
   display_name |-> "Sales"]
Lead0 == [cell_phone |-> CallerNumber, id |-> "lead-1"]

\* a number as buyNumbers inserts it: VALUES ($1, 'Free', null)
FreeNumber ==
  [phone_number |-> CalleeNumber, status |-> "Free", assigned_user |-> NULL]

DidNumbersTables ==
  {{}, {DidNumber("Assigned")}, {FreeNumber}, {DidNumber(NULL)}}
RingGroupsTables == {{}, {RingGroup0}}
CombinedLeadsTables == {{}, {Lead0}}

ConferenceEvent(event) ==
  [NoPayload EXCEPT !.StatusCallbackEvent = event, !.CallSid = "CA1",
                    !.ConferenceSid = "CF1", !.From = CallerNumber,
                    !.To = CalleeNumber]

StatusEvent(callStatus) ==
  [NoPayload EXCEPT !.CallSid = "CA1", !.CallStatus = callStatus,
                    !.From = CallerNumber, !.To = CalleeNumber]

\* a conference event the switch has no case for
UnhandledEvent == "conference-start"

\* conference events with and without a CallStatus beside them, call status
\* events, and a payload with neither discriminator
NotificationPayloads ==
  { ConferenceEvent("participant-join"),
    [ConferenceEvent("participant-join") EXCEPT !.CallStatus = "ringing"],
    ConferenceEvent("participant-leave"),
    [ConferenceEvent("participant-leave") EXCEPT !.CallStatus = "in-progress"],
    [ConferenceEvent("conference-end") EXCEPT !.CallSid = MISSING],
    [ConferenceEvent("conference-end") EXCEPT !.CallStatus = "completed"],
    ConferenceEvent(UnhandledEvent),
    [ConferenceEvent(UnhandledEvent) EXCEPT !.CallStatus = "ringing"],
    StatusEvent("ringing"), StatusEvent("completed"),
    [NoPayload EXCEPT !.From = CallerNumber, !.To = CalleeNumber] }

Implementations == {"original", "refactored"}

\* the status the provider reports for a call that has joined a conference
FetchedStatus == "in-progress"

\* this.ioServer.emit(channel, {...}) of incomingCallNotification
Notification(channel, conferenceSid, callSid, from, to, status, leadData, source, timestamp) ==
  [channel |-> channel, conferenceSid |-> conferenceSid, callSid |-> callSid,
   from |-> from, to |-> to, status |-> status, leadData |-> leadData,
   source |-> source, timestamp |-> timestamp]

\* mutant: the query for the callee's number finds no row
findUserByPhoneNumber_NoRow(phoneNumber) == {}

\* SELECT ... WHERE phone_number = $1 LIMIT 1: the rows found
findUserByPhoneNumber(phoneNumber) ==
  {row \in did_numbers : row.phone_number = phoneNumber}
findRingGroupByPhoneNumber(phoneNumber) ==
  {row \in ring_groups : row.phone_number = phoneNumber}
findLeadByPhoneNumber(phoneNumber) ==
  {row \in combined_leads : row.cell_phone = phoneNumber}

\* mutant: CallStatus is looked at before StatusCallbackEvent
EventOf_CallStatusFirst(p) ==
  IF p.CallStatus # MISSING
  THEN IF p.CallStatus # "completed" THEN "CallStatus" ELSE "completed"
  ELSE IF p.StatusCallbackEvent # MISSING
  THEN IF p.StatusCallbackEvent \in {"participant-join", "participant-leave",
                                     "conference-end"}
       THEN p.StatusCallbackEvent
       ELSE "default"
  ELSE "else"

\* mutant: a completed call is reported like any other status
EventOf_CompletedReported(p) ==
  IF p.StatusCallbackEvent # MISSING
  THEN IF p.StatusCallbackEvent \in {"participant-join", "participant-leave",
                                     "conference-end"}
       THEN p.StatusCallbackEvent
       ELSE "default"
  ELSE IF p.CallStatus # MISSING THEN "CallStatus"
  ELSE "else"

\* mutant: a participant-leave is delivered to the callee's user like a
\* status
EventOf_LeaveRouted(p) ==
  IF p.StatusCallbackEvent # MISSING
  THEN IF p.StatusCallbackEvent \in {"participant-join", "conference-end"}
       THEN p.StatusCallbackEvent
       ELSE IF p.StatusCallbackEvent = "participant-leave" THEN "CallStatus"
       ELSE "default"
  ELSE IF p.CallStatus # MISSING
  THEN IF p.CallStatus # "completed" THEN "CallStatus" ELSE "completed"
  ELSE "else"

\* mutant: an event the switch has no case for is handled by its CallStatus
EventOf_DefaultFallsThrough(p) ==
  IF p.StatusCallbackEvent \in {"participant-join", "participant-leave",
                                "conference-end"}
  THEN p.StatusCallbackEvent
  ELSE IF p.CallStatus # MISSING
  THEN IF p.CallStatus # "completed" THEN "CallStatus" ELSE "completed"
  ELSE "else"

\* the branch incomingCallNotification takes for input p:
\*   if (StatusCallbackEvent) switch (StatusCallbackEvent) {case
\*   "participant-join", "participant-leave", "conference-end", default}
\*   else if (CallStatus) { if (CallStatus !== "completed") ... } else ...
\* (an empty string is as false as a field that was not sent)
EventOf(p) ==
  IF p.StatusCallbackEvent # MISSING
  THEN IF p.StatusCallbackEvent \in {"participant-join", "participant-leave",
                                     "conference-end"}
       THEN p.StatusCallbackEvent
       ELSE "default"
  ELSE IF p.CallStatus # MISSING
  THEN IF p.CallStatus # "completed" THEN "CallStatus" ELSE "completed"
  ELSE "else"

\* incomingCallNotification(input), up to its first await: participant-leave
\* and conference-end are emitted at once, participant-join fetches the call,
\* a CallStatus other than "completed" looks the callee up, anything else
\* returns
incomingCallNotification(d, impl, p) ==
  /\ Idle(d)
  /\ LET h == [NoHandler EXCEPT !.op = "incomingCallNotification",
                                !.impl = impl, !.p = p]
         returned == [h EXCEPT !.pc = "done", !.ret = "ok"]
     IN CASE EventOf(p) = "participant-join" ->
               /\ wh' = [wh EXCEPT ![d] = [h EXCEPT !.pc = "fetch"]]
               /\ UNCHANGED emitted
          [] EventOf(p) = "participant-leave" ->
               Emit(d, returned,
                    <<Notification("participant-leave", p.ConferenceSid,
                                   p.CallSid, p.From, p.To, "", "", "",
                                   NULL_INT)>>)
          [] EventOf(p) = "conference-end" ->
               Emit(d, returned,
                    <<Notification("conference-end", p.ConferenceSid, "",
                                   "", "", "", "", "", NULL_INT)>>)
          [] EventOf(p) = "CallStatus" ->
               /\ wh' = [wh EXCEPT ![d] = [h EXCEPT !.pc = "statusUser"]]
               /\ UNCHANGED emitted
          [] OTHER ->
               /\ wh' = [wh EXCEPT ![d] = returned]
               /\ UNCHANGED emitted
  /\ UNCHANGED <<transferVars, providerVars, storeVars>>
  /\ UNCHANGED <<store0, did_numbers, ring_groups, combined_leads>>

\* mutant: the join goes on to the lead lookup without logging the call
CallFetched_NoLog(d, ok) ==
  /\ wh[d].pc = "fetch"
  /\ IF ok
     THEN Await(d, "lead",
                LogCallStatusValues(wh[d].p.CallSid, FetchedStatus, "inbound",
                                    CallerNumber, CalleeNumber, NULL_INT,
                                    MISSING, wh[d].p.ConferenceSid))
     ELSE Throw(d, incomingCallNotificationError)
  /\ UNCHANGED <<transferVars, providerVars, storeVars, emitted>>
  /\ UNCHANGED <<store0, did_numbers, ring_groups, combined_leads>>

\* signalWireClient.calls(input.CallSid).fetch() returns participantResponse
\* or fails; then logCallStatus(sid, status, "inbound", from, to, undefined,
\* undefined, undefined, input.ConferenceSid)
CallFetched(d, ok) ==
  /\ wh[d].pc = "fetch"
  /\ IF ok
     THEN Await(d, "logCallStatus",
                LogCallStatusValues(wh[d].p.CallSid, FetchedStatus, "inbound",
                                    CallerNumber, CalleeNumber, NULL_INT,
                                    MISSING, wh[d].p.ConferenceSid))
     ELSE Throw(d, incomingCallNotificationError)
  /\ UNCHANGED <<transferVars, providerVars, storeVars, emitted>>
  /\ UNCHANGED <<store0, did_numbers, ring_groups, combined_leads>>

\* mutant: a caller who is a known lead is announced without looking the
\* callee's user up
LeadFound_Routes(d, ok) ==
  /\ wh[d].pc = "lead"
  /\ LET leads == findLeadByPhoneNumber(wh[d].values.from)
         h == LookedUp(wh[d], "combined_leads", wh[d].values.from, ok)
     IN IF ok
        THEN wh' = [wh EXCEPT ![d] =
                      [h EXCEPT !.pc = IF leads = {} THEN "user"
                                       ELSE "ringGroup",
                                !.lead = IF leads = {} THEN ""
                                         ELSE (CHOOSE row \in leads : TRUE).id]]
        ELSE wh' = [wh EXCEPT ![d] = Failed(h, incomingCallNotificationError)]
  /\ UNCHANGED <<transferVars, providerVars, storeVars, emitted>>
  /\ UNCHANGED <<store0, did_numbers, ring_groups, combined_leads>>

\* findLeadByPhoneNumber(participantResponse.from) returns or fails
LeadFound(d, ok) ==
  /\ wh[d].pc = "lead"
  /\ LET leads == findLeadByPhoneNumber(wh[d].values.from)
         h == LookedUp(wh[d], "combined_leads", wh[d].values.from, ok)
     IN IF ok
        THEN wh' = [wh EXCEPT ![d] =
                      [h EXCEPT !.pc = "user",
                                !.lead = IF leads = {} THEN ""
                                         ELSE (CHOOSE row \in leads : TRUE).id]]
        ELSE wh' = [wh EXCEPT ![d] = Failed(h, incomingCallNotificationError)]
  /\ UNCHANGED <<transferVars, providerVars, storeVars, emitted>>
  /\ UNCHANGED <<store0, did_numbers, ring_groups, combined_leads>>

\* mutant: no directory row counts as an assigned user
Assigned_Never(user) == FALSE

\* mutant: the status is compared as it is stored, without toLowerCase()
Assigned_CaseSensitive(user) == user.status = "assigned"

\* `user && user.status.toLowerCase() === "assigned"`; the original join reads
\* user?.status?.toLowerCase(), which is undefined for a null status, the
\* other sites throw a TypeError
Assigned(user) == user.status # NULL /\ toLowerCase(user.status) = "assigned"
TypeError(h, user) ==
  user.status = NULL /\ ~(h.pc = "user" /\ h.impl = "original")

\* findUserByPhoneNumber returns or fails: for a join
\* (participantResponse.to) the assigned user is notified or the ring group is
\* looked up; for a status event (To) the status is emitted
UserFound(d, ok) ==
  /\ wh[d].pc \in {"user", "statusUser"}
  /\ LET number == IF wh[d].pc = "user" THEN wh[d].values.to ELSE wh[d].p.To
         h == LookedUp(wh[d], "did_numbers", number, ok)
         users == findUserByPhoneNumber(number)
         user == CHOOSE row \in users : TRUE
     IN IF ~ok \/ (users # {} /\ TypeError(h, user))
        THEN /\ wh' = [wh EXCEPT ![d] =
                        Failed(h, incomingCallNotificationError)]
             /\ UNCHANGED emitted
        ELSE IF h.pc = "user"
        THEN IF users # {} /\ Assigned(user)
             THEN Emit(d, Done(h, h.row),
                       <<Notification("user-notification-"
                                        \o user.assigned_user,
                                      h.p.ConferenceSid, h.p.CallSid,
                                      h.values.from, h.p.To, "", h.lead, "",
                                      NULL_INT)>>)
             ELSE /\ wh' = [wh EXCEPT ![d] = [h EXCEPT !.pc = "ringGroup"]]
                  /\ UNCHANGED emitted
        ELSE Emit(d, Done(h, h.row),
                  <<Notification(IF users # {} /\ Assigned(user)
                                 THEN "user-call-status-" \o user.assigned_user
                                 ELSE "call-status-update",
                                 "", h.p.CallSid, h.p.From, h.p.To,
                                 h.p.CallStatus, "", "", h.p.Timestamp)>>)
  /\ UNCHANGED <<transferVars, providerVars, storeVars>>
  /\ UNCHANGED <<store0, did_numbers, ring_groups, combined_leads>>

\* mutant: a ring-group query that fails counts as no ring group
RingGroupFound_Swallowed(d, ok) ==
  /\ wh[d].pc = "ringGroup"
  /\ LET h == LookedUp(wh[d], "ring_groups", wh[d].values.to, ok)
         groups == findRingGroupByPhoneNumber(h.values.to)
     IN Emit(d, Done(h, h.row),
             <<IF ok /\ groups # {}
               THEN Notification("ring-group-notification",
                                 h.p.ConferenceSid, h.p.CallSid,
                                 h.values.from, h.p.To, "", h.lead,
                                 (CHOOSE g \in groups : TRUE).display_name,
                                 NULL_INT)
               ELSE Notification("incoming-call", h.p.ConferenceSid,
                                 h.p.CallSid, h.values.from, "", "",
                                 h.lead, "", NULL_INT)>>)
  /\ UNCHANGED <<transferVars, providerVars, storeVars>>
  /\ UNCHANGED <<store0, did_numbers, ring_groups, combined_leads>>

\* findRingGroupByPhoneNumber(participantResponse.to) returns or fails: the
\* ring group is notified, or the call is announced on incoming-call
RingGroupFound(d, ok) ==
  /\ wh[d].pc = "ringGroup"
  /\ LET h == LookedUp(wh[d], "ring_groups", wh[d].values.to, ok)
         groups == findRingGroupByPhoneNumber(h.values.to)
     IN IF ok
        THEN Emit(d, Done(h, h.row),
                  <<IF groups # {}
                    THEN Notification("ring-group-notification",
                                      h.p.ConferenceSid, h.p.CallSid,
                                      h.values.from, h.p.To, "", h.lead,
                                      (CHOOSE g \in groups : TRUE).display_name,
                                      NULL_INT)
                    ELSE Notification("incoming-call", h.p.ConferenceSid,
                                      h.p.CallSid, h.values.from, "", "",
                                      h.lead, "", NULL_INT)>>)
        ELSE /\ wh' = [wh EXCEPT ![d] =
                        Failed(h, incomingCallNotificationError)]
             /\ UNCHANGED emitted
  /\ UNCHANGED <<transferVars, providerVars, storeVars>>
  /\ UNCHANGED <<store0, did_numbers, ring_groups, combined_leads>>

\* ------------------------------------------------------------ specification
Init ==
  /\ pc = [r \in Runs |-> "idle"]
  /\ body = [r \in Runs |-> NoBody]
  /\ response = [r \in Runs |-> NoCall]
  /\ consultCall = [r \in Runs |-> ""]
  /\ res = [r \in Runs |-> NoResponse]
  /\ issued = [r \in Runs |-> <<>>]
  /\ outcome = [r \in Runs |-> <<>>]
  /\ queries = [r \in Runs |-> <<>>]
  /\ pending = {}
  /\ replies = {}
  /\ hold = [p \in ConferenceSids \X OriginalCallSids |-> FALSE]
  /\ legs = {}
  /\ nextSid = 0
  /\ call_logs = {}
  /\ clock = 1
  /\ emitted = <<>>
  /\ wh = [d \in Deliveries |-> NoHandler]
  /\ store0 = {}
  /\ did_numbers = {}
  /\ ring_groups = {}
  /\ combined_leads = {}

Provider ==
  \E q \in pending, ok \in BOOLEAN :
    \/ ProviderUpdateParticipant(q, ok)
    \/ ProviderCallsCreate(q, ok)
    \/ ProviderCallsUpdate(q, ok)

Next ==
  \/ \E r \in Runs, b \in Bodies : attendedTransfer(r, b)
  \/ \E r \in Runs : HoldReturned(r)
  \/ \E r \in Runs : CallsCreateReturned(r)
  \/ \E r \in Runs, ok \in BOOLEAN : LogCallStatusReturned(r, ok)
  \/ \E r \in Runs : BridgeReturned(r)
  \/ \E r \in Runs : UnholdReturned(r)
  \/ Provider

Spec == Init /\ [][Next]_vars

\* the event loop resumes a handler whose awaited promise has settled, and
\* every call-control invocation and database statement completes or fails
ProviderFor(r) ==
  \E q \in pending, ok \in BOOLEAN :
    /\ q.run = r
    /\ \/ ProviderUpdateParticipant(q, ok)
       \/ ProviderCallsCreate(q, ok)
       \/ ProviderCallsUpdate(q, ok)

Progress ==
  \/ \E r \in Runs : ProviderFor(r)
  \/ \E r \in Runs : HoldReturned(r)
  \/ \E r \in Runs : CallsCreateReturned(r)
  \/ \E r \in Runs, ok \in BOOLEAN : LogCallStatusReturned(r, ok)
  \/ \E r \in Runs : BridgeReturned(r)
  \/ \E r \in Runs : UnholdReturned(r)

\* a run takes finitely many steps, so weak fairness of Progress gives every
\* started run its next step
Fairness == WF_vars(Progress)

\* whether a run returns does not depend on which conference it names: the
\* liveness specification takes its requests from one conference
LiveBodies == {b \in Bodies : b.conferenceSid \in {MISSING, LamlBinConference}}

LiveNext ==
  \/ \E r \in Runs, b \in LiveBodies : attendedTransfer(r, b)
  \/ Progress

LiveSpec == Init /\ [][LiveNext]_vars /\ Fairness

\* the store handlers run against a table that is empty or holds one record,
\* with no attended transfer in progress
StoreInit ==
  /\ pc = [r \in Runs |-> "idle"]
  /\ body = [r \in Runs |-> NoBody]
  /\ response = [r \in Runs |-> NoCall]
  /\ consultCall = [r \in Runs |-> ""]
  /\ res = [r \in Runs |-> NoResponse]
  /\ issued = [r \in Runs |-> <<>>]
  /\ outcome = [r \in Runs |-> <<>>]
  /\ queries = [r \in Runs |-> <<>>]
  /\ pending = {}
  /\ replies = {}
  /\ hold = [p \in ConferenceSids \X OriginalCallSids |-> FALSE]
  /\ legs = {}
  /\ nextSid = 0
  /\ call_logs \in {{}, {Row0}}
  /\ store0 = call_logs
  /\ clock = 1
  /\ emitted = <<>>
  /\ wh = [d \in Deliveries |-> NoHandler]
  /\ did_numbers = {}
  /\ ring_groups = {}
  /\ combined_leads = {}

StoreNext ==
  \/ \E d \in Deliveries, callId \in CallIds : SignalWireService_hold(d, callId)
  \/ \E d \in Deliveries, callId \in CallIds : SignalWireService_resume(d, callId)
  \/ \E d \in Deliveries, callId \in CallIds : SignalWireService_hangup(d, callId)
  \/ \E d \in Deliveries, ok \in BOOLEAN : CallUpdated(d, ok)
  \/ \E d \in Deliveries, p \in VoiceStatusPayloads :
       SignalWireController_voiceStatusCallback(d, p)
  \/ \E d \in Deliveries, p \in CallStatusPayloads : callStatusUpdate(d, p)
  \/ \E d \in Deliveries, p \in VoiceStatusPayloads : voiceStatusCallback(d, p)
  \/ \E d \in Deliveries, p \in RecordingPayloads :
       recordingStatusCallback(d, p)
  \/ \E d \in Deliveries, p \in HandleVoicePayloads :
       handleVoiceStatusCallback(d, p)
  \/ \E d \in Deliveries, ok \in BOOLEAN : LogCallStatusQuery(d, ok)
  \/ \E d \in Deliveries, ok \in BOOLEAN : CallStatusUpdateQuery(d, ok)
  \/ \E d \in Deliveries, ok \in BOOLEAN : RecordingUpdateQuery(d, ok)
  \/ \E d \in Deliveries, ok \in BOOLEAN : SelectQuery(d, ok)
  \/ \E d \in Deliveries, ok \in BOOLEAN : WriteQuery(d, ok)

StoreSpec == StoreInit /\ [][StoreNext]_vars

\* lifecycle events arrive with any directory and with a table that is empty
\* or holds one record
NotifyInit ==
  /\ pc = [r \in Runs |-> "idle"]
  /\ body = [r \in Runs |-> NoBody]
  /\ response = [r \in Runs |-> NoCall]
  /\ consultCall = [r \in Runs |-> ""]
  /\ res = [r \in Runs |-> NoResponse]
  /\ issued = [r \in Runs |-> <<>>]
  /\ outcome = [r \in Runs |-> <<>>]
  /\ queries = [r \in Runs |-> <<>>]
  /\ pending = {}
  /\ replies = {}
  /\ hold = [p \in ConferenceSids \X OriginalCallSids |-> FALSE]
  /\ legs = {}
  /\ nextSid = 0
  /\ call_logs \in {{}, {Row0}}
  /\ store0 = call_logs
  /\ clock = 1
  /\ emitted = <<>>
  /\ wh = [d \in Deliveries |-> NoHandler]
  /\ did_numbers \in DidNumbersTables
  /\ ring_groups \in RingGroupsTables
  /\ combined_leads \in CombinedLeadsTables

NotifyNext ==
  \/ \E d \in Events, impl \in Implementations, p \in NotificationPayloads :
       incomingCallNotification(d, impl, p)
  \/ \E d \in Events, ok \in BOOLEAN : CallFetched(d, ok)
  \/ \E d \in Events, ok \in BOOLEAN : LogCallStatusQuery(d, ok)
  \/ \E d \in Events, ok \in BOOLEAN : LeadFound(d, ok)
  \/ \E d \in Events, ok \in BOOLEAN : UserFound(d, ok)
  \/ \E d \in Events, ok \in BOOLEAN : RingGroupFound(d, ok)
  \/ \E d \in Events, p \in VoiceStatusPayloads :
       SignalWireController_voiceStatusCallback(d, p)
  \/ \E d \in Events, p \in CallStatusPayloads : callStatusUpdate(d, p)
  \/ \E d \in Events, p \in VoiceStatusPayloads : voiceStatusCallback(d, p)
  \/ \E d \in Events, ok \in BOOLEAN : CallStatusUpdateQuery(d, ok)

NotifySpec == NotifyInit /\ [][NotifyNext]_vars

\* ------------------------------------------------- the two versions compared
\* one webhook is handled twice over the same directory: delivery 1 by the
\* incomingCallNotification of original-signalwire.service.ts, delivery 2 by
\* the one of part_000
OriginalRun == 1
RefactoredRun == 2
Versions == {OriginalRun, RefactoredRun}

VersionsInit == NotifyInit

VersionsNext ==
  \/ \E p \in NotificationPayloads :
       incomingCallNotification(OriginalRun, "original", p)
  \/ \E p \in NotificationPayloads :
       /\ wh[OriginalRun].p = p /\ ~Idle(OriginalRun)
       /\ incomingCallNotification(RefactoredRun, "refactored", p)
  \/ \E d \in Versions, ok \in BOOLEAN : CallFetched(d, ok)
  \/ \E d \in Versions, ok \in BOOLEAN : LogCallStatusQuery(d, ok)
  \/ \E d \in Versions, ok \in BOOLEAN : LeadFound(d, ok)
  \/ \E d \in Versions, ok \in BOOLEAN : UserFound(d, ok)
  \/ \E d \in Versions, ok \in BOOLEAN : RingGroupFound(d, ok)

VersionsSpec == VersionsInit /\ [][VersionsNext]_vars

\* ------------------------------------------------------ reading the history
StepOrder == <<"hold", "dial", "bridge", "resume">>

\* which saga step a call-control request belongs to
Kind(q) ==
  CASE q.api = "participant.update" /\ q.Hold = "true"  -> "hold"
    [] q.api = "participant.update" /\ q.Hold = "false" -> "resume"
    [] q.api = "calls.create"                           -> "dial"
    [] q.api = "calls.update"                           -> "bridge"
    [] OTHER                                            -> q.api

Kinds(r) == [i \in 1..Len(issued[r]) |-> Kind(issued[r][i])]

Returned(r) == pc[r] = "done"

\* the step whose failure ended run r ("none" while no step has failed)
FailedStep(r) ==
  LET n == Len(outcome[r])
  IN IF n > 0 /\ n <= Len(issued[r]) /\ outcome[r][n] = "fail"
     THEN Kinds(r)[n] ELSE "none"

StepSucceeded(r, i) == Len(outcome[r]) >= i /\ outcome[r][i] = "ok"

InFlight(r) == {q \in pending : q.run = r} \cup {y \in replies : y.run = r}

Original(r) == <<body[r].conferenceSid, body[r].originalCallSid>>

\* ------------------------------------------------------------------ claims

\* C1: if the dial step fails after the hold succeeded, a resume (Hold=false)
\* of the original participant has been issued by the time the error is
\* returned, and the original participant is then not on hold.
C1_DialFailureResumesOriginal ==
  \A r \in Runs :
    (Returned(r) /\ FailedStep(r) = "dial") =>
      /\ \E i \in 1..Len(issued[r]) :
           issued[r][i] = unholdOriginalParticipant(r, body[r].conferenceSid,
                                                    body[r].originalCallSid)
      /\ ~hold[Original(r)]

\* C2: if the bridge step fails after hold and dial succeeded, the operation
\* fails and a hold-state check on the original call after it has returned
\* shows hold = false.
C2_BridgeFailureLeavesOriginalUnheld ==
  \A r \in Runs :
    (Returned(r) /\ FailedStep(r) = "bridge") =>
      /\ res[r].status = 500
      /\ hold[Original(r)] = FALSE

\* C3: the call-control operations of a run are issued in the order hold,
\* dial, bridge, resume; each one only after the previous step has completed
\* successfully, and never two of one run in flight at once.
C3_StrictOrder ==
  \A r \in Runs :
    /\ Len(issued[r]) <= Len(StepOrder)
    /\ \A i \in 1..Len(issued[r]) : Kinds(r)[i] = StepOrder[i]
    /\ \A i \in 1..(Len(issued[r]) - 1) : StepSucceeded(r, i)
    /\ Cardinality(InFlight(r)) <= 1

C3_Witness ==
  \E r \in Runs :
    /\ Returned(r) /\ res[r].status = 200
    /\ Kinds(r) = StepOrder

\* C4: if the hold step fails the operation aborts with an error and issues
\* nothing further: no dial, no bridge, no resume, no call_logs statement.
C4_HoldFailureNoSideEffects ==
  \A r \in Runs :
    FailedStep(r) = "hold" =>
      /\ Returned(r) /\ res[r].status = 500
      /\ Kinds(r) = <<"hold">>
      /\ InFlight(r) = {}
      /\ queries[r] = <<>>
      /\ \A row \in call_logs : row.call_sid # body[r].originalCallSid

C4_Witness ==
  \E r \in Runs : Returned(r) /\ FailedStep(r) = "hold"

\* C5: every invocation that passes validation eventually returns; it returns
\* the success response only if all four steps succeeded and otherwise the
\* error of the failed step.
C5_Returns ==
  \A r \in Runs :
    (pc[r] # "idle") ~>
      /\ Returned(r)
      /\ body[r] # NoBody =>
           \/ /\ res[r] = JsonMessage(200, CompleteMessage)
              /\ outcome[r] = <<"ok", "ok", "ok", "ok">>
           \/ /\ res[r].status = 500 /\ res[r].error # ""
              /\ FailedStep(r) # "none"

C5_Witness ==
  \E r \in Runs :
    /\ Returned(r) /\ res[r].status = 200
    /\ outcome[r] = <<"ok", "ok", "ok", "ok">>

\* C6: when the bridge step fails, no hangup (Status=completed) and no
\* participant removal is issued for the consultation call; the consultation
\* leg is left as the provider has it.
C6_OrphanedConsultCallLeftRunning ==
  \A r \in Runs :
    FailedStep(r) = "bridge" =>
      /\ \A i \in 1..Len(issued[r]) :
           issued[r][i].callSid = consultCall[r] =>
             /\ issued[r][i].Status # "completed"
             /\ issued[r][i].api # "participant.delete"
      /\ \E l \in legs : l.sid = consultCall[r] /\ l.status # "completed"

C6_Witness ==
  \E r \in Runs :
    /\ Returned(r) /\ FailedStep(r) = "bridge"
    /\ \E l \in legs : l.sid = consultCall[r]

\* C7: the error surfaced by a failed run identifies the step that failed:
\* two failed runs with the same error message failed in the same step.
C7_FailuresDistinguishable ==
  \A r1, r2 \in Runs :
    (/\ Returned(r1) /\ res[r1].status = 500
     /\ Returned(r2) /\ res[r2].status = 500
     /\ res[r1].error = res[r2].error) =>
       /\ FailedStep(r1) # "none"
       /\ FailedStep(r1) = FailedStep(r2)

C7_Witness ==
  \E r1, r2 \in Runs :
    /\ Returned(r1) /\ FailedStep(r1) = "hold"
    /\ Returned(r2) /\ FailedStep(r2) = "resume"

\* C8: a failed call-control step is never retried: hold, dial and bridge are
\* each invoked at most once per run, and a failure ends the step and the run.
C8_NoRetry ==
  \A r \in Runs :
    /\ \A k \in {"hold", "dial", "bridge"} :
         Cardinality({i \in 1..Len(issued[r]) : Kinds(r)[i] = k}) <= 1
    /\ \A i \in 1..Len(outcome[r]) :
         outcome[r][i] = "fail" =>
           /\ i = Len(outcome[r]) /\ i = Len(issued[r])
           /\ Returned(r) /\ res[r].status = 500

C8_Witness ==
  \E r \in Runs :
    /\ Returned(r) /\ FailedStep(r) = "bridge"
    /\ Kinds(r) = <<"hold", "dial", "bridge">>

\* C9: the bridge step attaches exactly the call identifier the dial step
\* returned, and attaches it to the conference named by the request's
\* conferenceSid.
C9_BridgeSameConference ==
  \A r \in Runs :
    /\ Len(issued[r]) >= 3 => issued[r][3].callSid = response[r].sid
    /\ StepSucceeded(r, 3) =>
         \A l \in legs :
           l.sid = consultCall[r] => l.conferenceSid = body[r].conferenceSid

\* C10 (as stated): attendedTransfer sends no statement to the Call Log Store.
C10_NoStoreWrite ==
  \A r \in Runs : queries[r] = <<>> /\ call_logs = {}

\* C10 (amended): the only Call Log Store write of a run is the one dial makes
\* after the provider accepted the consultation call: one upsert of that call's
\* record (status as returned, outbound, consultFrom, consultTo); the hold,
\* bridge and resume steps write nothing and no other call is written.
C10_OnlyDialLogsConsultCall ==
  /\ \A r \in Runs :
       /\ Len(queries[r]) <= 1
       /\ queries[r] # <<>> =>
            /\ queries[r] = <<response[r].sid>>
            /\ Len(issued[r]) >= 2 /\ Kinds(r)[2] = "dial"
  /\ \A row \in call_logs :
       \E r \in Runs :
         /\ StepSucceeded(r, 2)
         /\ row = [call_sid |-> consultCall[r],
                   call_status |-> InitialCallStatus,
                   direction |-> "outbound",
                   from_number |-> body[r].consultFrom,
                   to_number |-> body[r].consultTo,
                   call_duration |-> NULL_INT, recording_url |-> NULL,
                   participant_sid |-> NULL, conference_sid |-> NULL,
                   timestamp |-> row.timestamp]
  /\ \A r \in Runs :
       StepSucceeded(r, 2) => \E row \in call_logs : row.call_sid = consultCall[r]

C10_Witness ==
  \E r \in Runs :
    /\ Returned(r) /\ res[r].status = 200
    /\ \E row \in call_logs : row.call_sid = consultCall[r]

\* the step that answers request b of run r with the validation error and
\* does nothing else, and any other step the request could take
Rejected(r, b) ==
  /\ attendedTransfer(r, b)
  /\ res'[r] = JsonError(400, ValidationMessage)
  /\ pc'[r] = "done"
  /\ UNCHANGED <<issued, pending, queries, call_logs, emitted>>

NotRejected(r, b) ==
  /\ attendedTransfer(r, b)
  /\ ~ /\ res'[r] = JsonError(400, ValidationMessage)
       /\ pc'[r] = "done"
       /\ UNCHANGED <<issued, pending, queries, call_logs, emitted>>

\* C11: a request in which any of conferenceSid, originalCallSid, consultFrom,
\* consultTo, consultUrl is missing is answered 400 with the validation error
\* and nothing else happens in that step; a run answered 400 has sent no
\* call-control request and no call_logs statement, and a run that got past
\* the validation has all five fields.
C11_InvalidRejectedBeforeSideEffects ==
  \A r \in Runs :
    /\ pc[r] = "idle" =>
         \A b \in Bodies :
           AnyMissing(b) => ENABLED Rejected(r, b) /\ ~ENABLED NotRejected(r, b)
    /\ res[r].status = 400 =>
         /\ res[r] = JsonError(400, ValidationMessage) /\ pc[r] = "done"
         /\ issued[r] = <<>> /\ queries[r] = <<>> /\ InFlight(r) = {}
    /\ (pc[r] # "idle" /\ res[r].status # 400) => ~AnyMissing(body[r])

C11_Witness ==
  \E r \in Runs :
    /\ Returned(r) /\ res[r] = JsonError(400, ValidationMessage)
    /\ issued[r] = <<>> /\ queries[r] = <<>> /\ InFlight(r) = {}

\* a run that has held the original participant and not yet had its bridge
\* step return
MidSaga(r) == StepSucceeded(r, 1) /\ pc[r] \in {"dial", "dialLog", "bridge"}

\* C12: concurrent runs on the same conference and original call are not
\* guarded against each other: while one run is in progress, a second request
\* naming the same conference and call is accepted, and nothing keeps its
\* resume from reaching the provider while the first run is still between its
\* hold and its bridge.
C12_SameConferenceUnguarded ==
  \A r1 \in Runs : \A r2 \in Runs \ {r1} :
    /\ (pc[r1] \notin {"idle", "done"} /\ pc[r2] = "idle") =>
         ENABLED attendedTransfer(r2, body[r1])
    /\ (MidSaga(r1) /\ pc[r2] = "bridge" /\ Original(r2) = Original(r1)) =>
         \A y \in replies : (y.run = r2 /\ y.ok) => ENABLED BridgeReturned(r2)

\* the interleaving: run r2 has resumed the original participant, the hold
\* flag is clear, and run r1 is still between its hold and its bridge
C12_Witness ==
  \E r1 \in Runs : \E r2 \in Runs \ {r1} :
    /\ Original(r1) = Original(r2)
    /\ MidSaga(r1)
    /\ StepSucceeded(r2, 4)
    /\ ~hold[Original(r1)]

\* ------------------------------------------------------ Call Log Store claims
Upserts == {"logCallStatus", "callStatusUpdate"}

\* the step in which the upsert statement of delivery d succeeds
Upserted(d) ==
  wh[d].pc \in Upserts /\ wh'[d].pc # wh[d].pc /\ wh'[d].ret # "error"

\* the table after the handler of delivery d is run once more, with the same
\* payload, on `table` when the clock reads `today`
Reapply(table, d, today) ==
  IF wh[d].pc = "logCallStatus"
  THEN logCallStatus(table, today, StatementOf(wh[d].op, wh[d].p, today))
  ELSE callStatusUpdateQuery(table, StatementOf(wh[d].op, wh[d].p, today))

RowsOf(table, callSid) == {row \in table : row.call_sid = callSid}

WithoutTimestamp(table) == {[row EXCEPT !.timestamp = 0] : row \in table}

\* C13 (as stated): applying the same update to logCallStatus or
\* callStatusUpdate twice leaves exactly one row for the callId, identical to
\* the row left by applying it once.
C13_TwiceIdenticalToOnce ==
  [][\A d \in Deliveries :
       Upserted(d) =>
         /\ Cardinality(RowsOf(Reapply(call_logs', d, clock'),
                               wh[d].values.callSid)) = 1
         /\ Reapply(call_logs', d, clock') = call_logs']_vars

\* C13 (amended): applying the same update twice leaves exactly one row for
\* the callId, identical to the row left by applying it once in every column
\* except timestamp, which is the time of the last application; it is fully
\* identical when the update carries its own Timestamp (callStatusUpdate).
C13_TwiceSameButTimestamp ==
  [][\A d \in Deliveries :
       Upserted(d) =>
         LET twice == Reapply(call_logs', d, clock')
         IN /\ Cardinality(RowsOf(twice, wh[d].values.callSid)) = 1
            /\ WithoutTimestamp(twice) = WithoutTimestamp(call_logs')
            /\ \A row \in RowsOf(twice, wh[d].values.callSid) :
                 row.timestamp =
                   IF wh[d].op = "callStatusUpdate"
                      /\ wh[d].p.Timestamp # NULL_INT
                   THEN wh[d].p.Timestamp ELSE clock'
            /\ twice \ RowsOf(twice, wh[d].values.callSid) =
                 call_logs' \ RowsOf(call_logs', wh[d].values.callSid)]_vars

\* a webhook delivery has been retried with the same payload, and both
\* deliveries were applied
C13_Witness ==
  \E d1 \in Deliveries : \E d2 \in Deliveries \ {d1} :
    /\ wh[d1].ret = "ok" /\ wh[d2].ret = "ok"
    /\ wh[d1].op = wh[d2].op /\ wh[d1].p = wh[d2].p
    /\ wh[d1].op \in {"callStatusUpdate", "voiceStatusCallback"}
    /\ Cardinality(RowsOf(call_logs, wh[d1].p.CallSid)) = 1

Omitted(x) == x \in {MISSING, NULL}

\* C14 (as stated): an upsert for an existing callId that supplies only a
\* status, and no recordingUrl, never replaces a stored non-null recordingUrl
\* with null, through logCallStatus, callStatusUpdate or voiceStatusCallback.
C14_StatusOnlyKeepsRecordingUrl ==
  [][\A d \in Deliveries :
       (Upserted(d) /\ Omitted(wh[d].values.recordingUrl)) =>
         \A row \in RowsOf(call_logs, wh[d].values.callSid) :
           row.recording_url # NULL =>
             \A after \in RowsOf(call_logs', wh[d].values.callSid) :
               after.recording_url = row.recording_url]_vars

\* the table a handler leaves when it runs alone on `table` with the outcome
\* delivery d had (a failed statement leaves the table as it was)
RunAlone(table, d) ==
  IF wh[d].ret # "ok" THEN [table |-> table, ret |-> "error"]
  ELSE CASE wh[d].op \in {"hold", "resume", "hangup",
                          "SignalWireController.voiceStatusCallback"} ->
              [table |-> logCallStatus(table, 0, wh[d].values), ret |-> "ok"]
         [] wh[d].op \in {"callStatusUpdate", "voiceStatusCallback"} ->
              [table |-> callStatusUpdateQuery(table, wh[d].values),
               ret |-> "ok"]
         [] wh[d].op = "recordingStatusCallback" ->
              IF recordingUpdateMatches(table, wh[d].values.callSid) = {}
              THEN [table |-> table, ret |-> "error"]
              ELSE [table |-> recordingUpdateQuery(table,
                                 wh[d].values.recordingUrl,
                                 wh[d].values.callDuration,
                                 wh[d].values.callSid),
                    ret |-> "ok"]
         [] wh[d].op = "handleVoiceStatusCallback" ->
              IF RowsOf(table, wh[d].p.CallSid) # {}
              THEN [table |-> table, ret |-> "error"]
              ELSE [table |-> insertCallLog(table, 0, wh[d].p), ret |-> "ok"]
         [] OTHER -> [table |-> table, ret |-> wh[d].ret]

\* some serial order of the handlers in ds, each with the outcome it had,
\* takes `table` to the present call_logs (up to the time of each write)
RECURSIVE Serializable(_, _)
Serializable(table, ds) ==
  IF ds = {} THEN WithoutTimestamp(table) = WithoutTimestamp(call_logs)
  ELSE \E d \in ds :
         /\ RunAlone(table, d).ret = wh[d].ret
         /\ Serializable(RunAlone(table, d).table, ds \ {d})

Finished == {d \in Deliveries : wh[d].pc = "done"}

C16_OmittedFieldsKept ==
  [][\A d \in Deliveries :
       Upserted(d) =>
         \A row \in RowsOf(call_logs, wh[d].values.callSid) :
           \A after \in RowsOf(call_logs', wh[d].values.callSid) :
             /\ (Omitted(wh[d].values.conferenceSid)
                   /\ row.conference_sid # NULL) =>
                  after.conference_sid = row.conference_sid
             /\ (Omitted(wh[d].values.participantSid)
                   /\ row.participant_sid # NULL) =>
                  after.participant_sid = row.participant_sid
             /\ (wh[d].values.callDuration = NULL_INT
                   /\ row.call_duration # NULL_INT) =>
                  after.call_duration = row.call_duration]_vars

\* C17: an upsert for an existing callId never changes the stored direction,
\* from_number or to_number of the record, whatever the update carries (hold,
\* resume and hangup pass empty strings).
C17_DirectionFromToKept ==
  [][\A row \in call_logs :
       \E after \in call_logs' :
         /\ after.call_sid = row.call_sid
         /\ after.direction = row.direction
         /\ after.from_number = row.from_number
         /\ after.to_number = row.to_number]_vars

\* hold has upserted the existing record with empty from and to
C17_Witness ==
  \E d \in Deliveries :
    /\ wh[d].op = "hold" /\ wh[d].ret = "ok" /\ wh[d].values.from = ""
    /\ store0 = {Row0}
    /\ \E row \in call_logs :
         /\ row.call_sid = wh[d].values.callSid
         /\ row.call_status = "paused"
         /\ row.from_number = Row0.from_number

\* C18 (as stated): every successful upsert, by logCallStatus or by
\* callStatusUpdate, returns the row stored for the callId after the statement.
C18_UpsertReturnsRow ==
  [][\A d \in Deliveries :
       Upserted(d) =>
         wh'[d].row \in RowsOf(call_logs', wh[d].values.callSid)]_vars

\* C19 (as stated): a recording status event with a RecordingUrl whose
\* statement is run updates recording_url and call_duration of every record
\* whose call_sid is the event's CallSid or whose conference_sid is the
\* event's ConferenceSid, also when the event carries both.
C19_RecordingUpdatesEveryMatch ==
  [][\A d \in Deliveries :
       (wh[d].pc = "update" /\ wh'[d].error # queryError) =>
         \A row \in call_logs :
           (\/ (wh[d].p.CallSid # MISSING /\ row.call_sid = wh[d].p.CallSid)
            \/ (wh[d].p.ConferenceSid # MISSING
                  /\ row.conference_sid = wh[d].p.ConferenceSid)) =>
             [row EXCEPT !.recording_url = wh[d].p.RecordingUrl,
                         !.call_duration =
                            DurationOrNull(wh[d].p.RecordingDuration)]
               \in call_logs']_vars

\* the step in which the handler of delivery d returns successfully
Processed(d) == wh[d].pc # "done" /\ wh'[d].pc = "done" /\ wh'[d].ret = "ok"

\* the status a lifecycle event reports: CallStatus, or for a participant-join
\* the status of the fetched call
EventStatus(h) ==
  IF h.p.StatusCallbackEvent = "participant-join" THEN FetchedStatus
  ELSE h.p.CallStatus

\* events that incomingCallNotification only publishes
PublishedOnly(h) ==
  /\ h.op = "incomingCallNotification"
  /\ h.p.StatusCallbackEvent # "participant-join"

\* C20 (as stated): after a lifecycle event carrying a CallSid
\* (participant-join, participant-leave, call status update, voice status
\* callback) has been processed successfully, the store holds a record for
\* that callId whose status reflects the event.
C20_EventLeavesRecord ==
  [][\A d \in Events :
       (Processed(d) /\ wh'[d].p.CallSid # MISSING) =>
         \E row \in call_logs' :
           /\ row.call_sid = wh'[d].p.CallSid
           /\ row.call_status = EventStatus(wh'[d])]_vars

\* C20 (amended): a participant-join, a callStatusUpdate and a voice status
\* callback write the call's record with the event's status when their upsert
\* succeeds, and the record is there when they return; a participant-leave
\* and a CallStatus event handled by incomingCallNotification are only
\* published and leave the store as it was.
C20_UpsertingEventsLeaveRecord ==
  [][\A d \in Events :
       /\ Upserted(d) =>
            \E row \in call_logs' :
              /\ row.call_sid = wh[d].p.CallSid
              /\ row.call_status = EventStatus(wh[d])
       /\ (Processed(d) /\ ~PublishedOnly(wh'[d])) =>
            \E row \in call_logs' : row.call_sid = wh'[d].p.CallSid
       /\ (wh'[d] # wh[d] /\ PublishedOnly(wh'[d])) =>
            call_logs' = call_logs]_vars

\* a participant-join for a call with no record has been processed, and the
\* record is there
C20_Witness ==
  \E d \in Events :
    /\ wh[d].op = "incomingCallNotification" /\ wh[d].ret = "ok"
    /\ wh[d].p.StatusCallbackEvent = "participant-join"
    /\ store0 = {}
    /\ \E row \in call_logs :
         /\ row.call_sid = wh[d].p.CallSid
         /\ row.call_status = FetchedStatus
         /\ row.conference_sid = wh[d].p.ConferenceSid

\* ------------------------------------------------- claims about the routing
Usernames == {row.assigned_user : row \in UNION DidNumbersTables} \ {NULL}

CallStatusChannels ==
  {"call-status-update"} \cup {"user-call-status-" \o u : u \in Usernames}
JoinChannels ==
  {"ring-group-notification", "incoming-call"}
    \cup {"user-notification-" \o u : u \in Usernames}

\* the invocations of incomingCallNotification
Notifications == {d \in Events : wh[d].op = "incomingCallNotification"}

\* the channels invocation h has published on
ChannelsOf(h) == {h.published[i].channel : i \in DOMAIN h.published}

\* the messages invocation h has published on the channels of cs
PublishedOn(h, cs) == SelectSeq(h.published, LAMBDA m : m.channel \in cs)

\* the directory table an invocation suspended at pc is querying
TableAt(at) ==
  CASE at = "lead" -> {"combined_leads"}
    [] at \in {"user", "statusUser"} -> {"did_numbers"}
    [] at = "ringGroup" -> {"ring_groups"}
    [] OTHER -> {}

\* the directory tables invocation h has queried or is querying
Queried(h) == {h.lookups[i].table : i \in DOMAIN h.lookups} \cup TableAt(h.pc)

\* what a participant-leave and a conference-end broadcast for payload p
LeaveBroadcast(p) ==
  Notification("participant-leave", p.ConferenceSid, p.CallSid, p.From, p.To,
               "", "", "", NULL_INT)
EndBroadcast(p) ==
  Notification("conference-end", p.ConferenceSid, "", "", "", "", "", "",
               NULL_INT)

\* C21: a payload in which StatusCallbackEvent is present is classified by
\* that field alone, whatever CallStatus it also carries: a conference-end
\* publishes the conference-end broadcast and nothing else, a participant-leave
\* the participant-leave broadcast and nothing else, and no invocation for
\* such a payload ever publishes a call-status notification or looks the
\* callee up for one.
C21_ClassifiedByEventAlone ==
  \A d \in Notifications :
    LET h == wh[d]
    IN h.p.StatusCallbackEvent # MISSING =>
         /\ ChannelsOf(h) \cap CallStatusChannels = {}
         /\ h.pc # "statusUser"
         /\ h.p.StatusCallbackEvent = "conference-end" =>
              /\ h.pc = "done" /\ h.ret = "ok"
              /\ h.published = <<EndBroadcast(h.p)>>
         /\ h.p.StatusCallbackEvent = "participant-leave" =>
              /\ h.pc = "done" /\ h.ret = "ok"
              /\ h.published = <<LeaveBroadcast(h.p)>>

\* a conference-end or participant-leave that also carries a CallStatus has
\* been handled as the conference event, with one broadcast published
C21_Witness ==
  \E d \in Notifications :
    /\ wh[d].p.StatusCallbackEvent \in {"conference-end", "participant-leave"}
    /\ wh[d].p.CallStatus # MISSING
    /\ wh[d].pc = "done"
    /\ Len(wh[d].published) = 1

IsJoin(h) == EventOf(h.p) = "participant-join"

\* the users the directory assigns `number` to: rows of did_numbers for the
\* number whose status reads "assigned" in any letter case
AssignedUsers(number) ==
  {row.assigned_user :
     row \in {r \in did_numbers :
                /\ r.phone_number = number
                /\ r.status \in {"assigned", "Assigned", "ASSIGNED"}}}

\* the ring groups `number` belongs to
RingGroupsOf(number) ==
  {row.display_name : row \in {r \in ring_groups : r.phone_number = number}}

\* invocation h has had an answer from `table`
Answered(h, table) ==
  \E i \in DOMAIN h.lookups : h.lookups[i].table = table /\ h.lookups[i].ok

\* C22: for a participant-join whose callee number has both an assigned-user
\* row and a ring-group row, the notification goes out on
\* user-notification-{username} and never on ring-group-notification; the
\* ring groups are queried only after the assigned-user lookup has answered
\* without resolving to an assigned user.
C22_AssignedUserBeforeRingGroup ==
  \A d \in Notifications :
    LET h == wh[d]
        users == AssignedUsers(CalleeNumber)
    IN IsJoin(h) =>
         /\ (users # {} /\ RingGroupsOf(CalleeNumber) # {}) =>
              /\ "ring-group-notification" \notin ChannelsOf(h)
              /\ (h.pc = "done" /\ h.ret = "ok") =>
                   \E u \in users :
                     ChannelsOf(h) \cap JoinChannels
                       = {"user-notification-" \o u}
         /\ "ring_groups" \in Queried(h) =>
              /\ Answered(h, "did_numbers")
              /\ users = {}

\* a join for a number that has both rows has been routed to the user
C22_Witness ==
  \E d \in Notifications :
    /\ IsJoin(wh[d]) /\ wh[d].ret = "ok"
    /\ AssignedUsers(CalleeNumber) # {} /\ RingGroupsOf(CalleeNumber) # {}
    /\ "user-notification-alice" \in ChannelsOf(wh[d])

\* the channel the directory gives a participant-join for `number`
JoinChannel(number) ==
  IF AssignedUsers(number) # {}
  THEN "user-notification-" \o (CHOOSE u \in AssignedUsers(number) : TRUE)
  ELSE IF RingGroupsOf(number) # {} THEN "ring-group-notification"
  ELSE "incoming-call"

C24_CompletedSuppressed ==
  \A d \in Notifications :
    LET h == wh[d]
    IN (h.p.StatusCallbackEvent = MISSING /\ h.p.CallStatus = "completed") =>
         /\ h.pc = "done" /\ h.ret = "ok"
         /\ h.published = <<>>
         /\ Queried(h) = {}

\* a completed status for a number that is assigned to a user has been
\* handled, and nothing is on the event bus
C24_Witness ==
  \E d \in Notifications :
    /\ wh[d].p = StatusEvent("completed")
    /\ wh[d].pc = "done"
    /\ AssignedUsers(wh[d].p.To) # {}
    /\ emitted = <<>>

ProcessedOk(h) == h.pc = "done" /\ h.ret = "ok"

\* C25 (as stated): for each participant-join and each call-status event
\* other than completed that incomingCallNotification processes successfully,
\* exactly one message is published on the event bus.
C25_OneMessagePerEvent ==
  \A d \in Notifications :
    (ProcessedOk(wh[d]) /\ EventOf(wh[d].p) \in {"participant-join", "CallStatus"})
      => Len(wh[d].published) = 1

\* C25 (amended): a call-status event other than completed that is processed
\* successfully publishes exactly one message, its status notification; a
\* participant-join that is processed successfully publishes exactly two: the
\* outbound-call-status of the call-record upsert and then exactly one routed
\* notification.
C25_OneRoutedMessagePerEvent ==
  \A d \in Notifications :
    LET h == wh[d]
    IN ProcessedOk(h) =>
         /\ EventOf(h.p) = "CallStatus" =>
              /\ Len(h.published) = 1
              /\ h.published[1].channel \in CallStatusChannels
         /\ IsJoin(h) =>
              /\ Len(h.published) = 2
              /\ h.published[1].channel = "outbound-call-status"
              /\ h.published[2].channel \in JoinChannels

\* a participant-join has been processed and the event bus carries its two
\* messages
C25_Witness ==
  \E d \in Notifications :
    /\ IsJoin(wh[d]) /\ ProcessedOk(wh[d])
    /\ Len(emitted) = 2
    /\ emitted = wh[d].published

\* the directory queries of invocation h that failed
FailedLookups(h) ==
  {h.lookups[i].table : i \in {j \in DOMAIN h.lookups : ~h.lookups[j].ok}}

\* C26: when a directory lookup (lead, assigned user or ring group) fails
\* because the store is unavailable while a join or a status event is being
\* handled, incomingCallNotification fails with its error and has published
\* nothing on incoming-call, call-status-update, ring-group-notification or a
\* user channel: a failed lookup never becomes an Unassigned routing.
C26_LookupFailureIsFatal ==
  \A d \in Notifications :
    LET h == wh[d]
    IN FailedLookups(h) # {} =>
         /\ h.pc = "done" /\ h.ret = "error"
         /\ h.error = incomingCallNotificationError
         /\ ChannelsOf(h) \cap (JoinChannels \cup CallStatusChannels) = {}
         /\ Len(h.lookups) = Len(SelectSeq(h.lookups, LAMBDA l : l.ok)) + 1

\* the ring-group query of a join failed after the callee turned out not to
\* be assigned, and the join has failed
C26_Witness ==
  \E d \in Notifications :
    /\ IsJoin(wh[d])
    /\ FailedLookups(wh[d]) = {"ring_groups"}
    /\ wh[d].ret = "error"

\* the channel the directory gives a status event for `number`
StatusChannel(number) ==
  IF AssignedUsers(number) # {}
  THEN "user-call-status-" \o (CHOOSE u \in AssignedUsers(number) : TRUE)
  ELSE "call-status-update"

LeadOf(number) ==
  LET leads == {row \in combined_leads : row.cell_phone = number}
  IN IF leads = {} THEN "" ELSE (CHOOSE row \in leads : TRUE).id

\* the routed notification of a join for payload p, its leadData left out: a
\* function of the payload, did_numbers and ring_groups
RoutedJoin(p) ==
  CASE JoinChannel(CalleeNumber) = "ring-group-notification" ->
         Notification("ring-group-notification", p.ConferenceSid, p.CallSid,
                      CallerNumber, p.To, "", "",
                      CHOOSE g \in RingGroupsOf(CalleeNumber) : TRUE, NULL_INT)
    [] JoinChannel(CalleeNumber) = "incoming-call" ->
         Notification("incoming-call", p.ConferenceSid, p.CallSid,
                      CallerNumber, "", "", "", "", NULL_INT)
    [] OTHER ->
         Notification(JoinChannel(CalleeNumber), p.ConferenceSid, p.CallSid,
                      CallerNumber, p.To, "", "", "", NULL_INT)

\* C28: the channel a participant-join is published on is the same whether
\* or not a lead matches the caller's number: the routed message is the one
\* the payload, did_numbers and ring_groups give, and the result of the lead
\* lookup shows in its leadData and nowhere else; the user lookup follows the
\* lead lookup whatever that found.
C28_LeadDoesNotRoute ==
  \A d \in Notifications :
    LET h == wh[d]
    IN IsJoin(h) =>
         /\ \A i \in DOMAIN h.published :
              h.published[i].channel \in JoinChannels =>
                /\ [h.published[i] EXCEPT !.leadData = ""] = RoutedJoin(h.p)
                /\ h.published[i].leadData = LeadOf(CallerNumber)
         /\ Answered(h, "combined_leads") =>
              "did_numbers" \in Queried(h)

\* a join from a caller who is a known lead has been routed to the assigned
\* user with the lead attached
C28_Witness ==
  \E d \in Notifications :
    /\ IsJoin(wh[d]) /\ ProcessedOk(wh[d])
    /\ combined_leads = {Lead0}
    /\ \E i \in DOMAIN wh[d].published :
         /\ wh[d].published[i].channel = "user-notification-alice"
         /\ wh[d].published[i].leadData = Lead0.id

\* C29: a participant-leave and a conference-end are broadcast
\* unconditionally on the fixed channels participant-leave and conference-end:
\* the invocation queries no directory table, returns at once, and its one
\* message is made of the payload alone, whatever the directory holds.
C29_LeaveAndEndBroadcast ==
  \A d \in Notifications :
    LET h == wh[d]
        event == h.p.StatusCallbackEvent
    IN event \in {"participant-leave", "conference-end"} =>
         /\ ProcessedOk(h)
         /\ h.lookups = <<>> /\ Queried(h) = {}
         /\ h.published =
              <<[channel |-> event,
                 conferenceSid |-> h.p.ConferenceSid,
                 callSid |-> IF event = "participant-leave"
                             THEN h.p.CallSid ELSE "",
                 from |-> IF event = "participant-leave"
                          THEN h.p.From ELSE "",
                 to |-> IF event = "participant-leave"
                        THEN h.p.To ELSE "",
                 status |-> "", leadData |-> "", source |-> "",
                 timestamp |-> NULL_INT]>>

\* a participant-leave for a number that has an assigned user, a ring group
\* and a lead has been broadcast
C29_Witness ==
  \E d \in Notifications :
    /\ wh[d].p.StatusCallbackEvent = "participant-leave" /\ wh[d].pc = "done"
    /\ AssignedUsers(wh[d].p.To) # {} /\ RingGroupsOf(wh[d].p.To) # {}
    /\ LeadOf(wh[d].p.From) # ""
    /\ ChannelsOf(wh[d]) = {"participant-leave"}

\* a payload with neither discriminator, or with a StatusCallbackEvent other
\* than the three that are handled
Unrecognized(p) ==
  \/ p.StatusCallbackEvent = MISSING /\ p.CallStatus = MISSING
  \/ /\ p.StatusCallbackEvent # MISSING
     /\ p.StatusCallbackEvent \notin {"participant-join", "participant-leave",
                                      "conference-end"}

\* C30: a payload with neither StatusCallbackEvent nor CallStatus, and a
\* payload whose StatusCallbackEvent is none of participant-join,
\* participant-leave and conference-end, is a no-op: incomingCallNotification
\* returns at once without an error, publishes nothing, queries no directory
\* table and sends no statement to the store; while such payloads are all
\* that has arrived, the store and the event bus are as they were.
C30_UnrecognizedIsNoOp ==
  /\ \A d \in Notifications :
       LET h == wh[d]
       IN Unrecognized(h.p) =>
            /\ ProcessedOk(h) /\ h.error = ""
            /\ h.published = <<>>
            /\ h.lookups = <<>> /\ Queried(h) = {}
            /\ h.values = NoValues /\ h.row = NoRow
  /\ (\A d \in Deliveries :
        Idle(d) \/ (d \in Notifications /\ Unrecognized(wh[d].p))) =>
       /\ call_logs = store0
       /\ emitted = <<>>

\* a payload with an unhandled StatusCallbackEvent and a CallStatus beside it
\* has been handled, and the store and the event bus are untouched
C30_Witness ==
  \E d \in Notifications :
    /\ wh[d].p.StatusCallbackEvent = UnhandledEvent
    /\ wh[d].p.CallStatus = "ringing"
    /\ wh[d].pc = "done"
    /\ call_logs = store0 /\ emitted = <<>>

\* ------------------------------------------- claims about what is published
\* the channels the specification lists
ListedChannels ==
  JoinChannels \cup CallStatusChannels
    \cup {"participant-leave", "conference-end", "outbound-call-status"}

VoiceStatusCallbacks ==
  {"SignalWireController.voiceStatusCallback", "voiceStatusCallback"}

\* C31 (as stated): every message published on the event bus is on one of
\* user-notification-{username}, user-call-status-{username},
\* ring-group-notification, incoming-call, call-status-update,
\* participant-leave, conference-end, outbound-call-status.
C31_OnlyListedChannels ==
  \A i \in DOMAIN emitted : emitted[i].channel \in ListedChannels

\* C31 (amended): every message published on the event bus is on one of the
\* eight listed channels or on call-ended, and call-ended is used only by a
\* voice status callback.
C31_ListedChannelsOrCallEnded ==
  /\ \A i \in DOMAIN emitted :
       emitted[i].channel \in ListedChannels \cup {"call-ended"}
  /\ \A d \in Deliveries :
       "call-ended" \in {wh[d].published[i].channel : i \in DOMAIN wh[d].published}
         => wh[d].op \in VoiceStatusCallbacks

\* a voice status callback has announced the end of a call on call-ended
C31_Witness ==
  \E i \in DOMAIN emitted :
    /\ emitted[i].channel = "call-ended"
    /\ emitted[i].callSid = "CA1"

\* invocation h sent its statement to the store and failed
WriteFailed(h) == h.pc = "done" /\ h.ret = "error" /\ h.values # NoValues

\* C32: when the handling of a provider webhook fails only in internal
\* bookkeeping, such as a failed call-log write, the controller still
\* acknowledges the delivery with a success response.
C32_BookkeepingFailureAcknowledged ==
  \A d \in Deliveries :
    (wh[d].op \in VoiceStatusCallbacks \cup {"recordingStatusCallback"}
       /\ WriteFailed(wh[d]))
      => ResStatus(wh[d]) = 200

\* ------------------------------------------ claims about the status handlers
\* the records that carry an identifier of recording payload p
RecordsOf(table, p) ==
  {row \in table :
     \/ p.CallSid # MISSING /\ p.CallSid \in {row.call_sid, row.conference_sid}
     \/ p.ConferenceSid # MISSING
          /\ p.ConferenceSid \in {row.call_sid, row.conference_sid}}

RecordingErrors == {recordingSidError, recordingUrlError, recordingMatchError}

\* C33: a recording status event is rejected with an error, and leaves every
\* call record as it was, when both CallSid and ConferenceSid are missing,
\* when RecordingUrl is missing, or when no stored record matches; and no
\* step of a recording event adds a record to the store.
C33_RecordingRejected ==
  [][\A d \in Deliveries :
       (wh'[d] # wh[d] /\ wh'[d].op = "recordingStatusCallback") =>
         LET p == wh'[d].p
             invalid == \/ p.CallSid = MISSING /\ p.ConferenceSid = MISSING
                        \/ p.RecordingUrl = MISSING
         IN /\ {row.call_sid : row \in call_logs'}
                 = {row.call_sid : row \in call_logs}
            /\ invalid =>
                 /\ wh'[d].pc = "done" /\ wh'[d].ret = "error"
                 /\ wh'[d].error \in RecordingErrors
                 /\ wh'[d].values = NoValues
                 /\ call_logs' = call_logs
            /\ (wh[d].pc = "update" /\ RecordsOf(call_logs, p) = {}) =>
                 /\ wh'[d].pc = "done" /\ wh'[d].ret = "error"
                 /\ call_logs' = call_logs
            /\ wh'[d].ret = "error" => call_logs' = call_logs]_vars

\* a recording for a call the empty store has no record of has been rejected,
\* and the store is still empty
C33_Witness ==
  \E d \in Deliveries :
    /\ wh[d].op = "recordingStatusCallback"
    /\ wh[d].error = recordingMatchError
    /\ store0 = {} /\ call_logs = {}

\* a participant-join whose call-record upsert was issued and failed: it
\* ended in error after its statement was built and before any lookup
UpsertFailed(h) ==
  /\ h.op = "incomingCallNotification"
  /\ h.p.StatusCallbackEvent = "participant-join"
  /\ h.pc = "done" /\ h.ret = "error"
  /\ h.values # NoValues /\ h.lookups = <<>>

\* C34: on a participant-join the call-record upsert comes before every
\* directory lookup and before the routed notification: once a lookup has
\* been made or a message published, the record of the call is stored, the
\* first message is the upsert's outbound-call-status and any routed
\* notification follows it; a join whose upsert failed has failed and has
\* published nothing on any channel.
C34_UpsertBeforeLookups ==
  \A d \in Notifications :
    wh[d].p.StatusCallbackEvent = "participant-join" =>
      /\ (Queried(wh[d]) # {} \/ wh[d].published # <<>>) =>
           /\ wh[d].published # <<>>
           /\ wh[d].published[1].channel = "outbound-call-status"
           /\ \E row \in call_logs : row.call_sid = wh[d].values.callSid
           /\ \A i \in DOMAIN wh[d].published :
                wh[d].published[i].channel \in JoinChannels => i > 1
      /\ UpsertFailed(wh[d]) =>
           /\ wh[d].error = incomingCallNotificationError
           /\ wh[d].published = <<>>

\* a join whose upsert failed on an empty store: nothing was stored and
\* nothing published
C34_Witness ==
  \E d \in Notifications :
    UpsertFailed(wh[d]) /\ call_logs = {} /\ emitted = <<>>

\* the consultation legs the provider created for the dial of run r
ConsultLegs(r) == {l \in legs : l.sid = response[r].sid}

\* C35: whenever the dial step of attendedTransfer is reported as failed, no
\* consultation call leg was created at the provider for it: a dial the
\* provider accepted is never reported as a failed step 2.
C35_FailedDialCreatedNoLeg ==
  \A r \in Runs :
    (Returned(r) /\ FailedStep(r) = "dial") =>
      /\ response[r] = NoCall
      /\ ConsultLegs(r) = {}

\* an invocation that was failed from outside: by the provider's fetch or the
\* upsert (it ended in error before any lookup) or by a lookup that failed
ExternalFailure(h) ==
  h.ret = "error" /\ (h.lookups = <<>> \/ FailedLookups(h) # {})

\* what an invocation did: its statement, its lookups, the messages it
\* published and its result
Outcome(h) == <<h.values, h.lookups, h.published, h.ret, h.error>>

\* C36: for every webhook payload and every directory and store state, the
\* refactored incomingCallNotification has the same outcome as the original
\* one (the same statement sent to the store, the same sequence of published
\* messages, the same success or error result) whenever the provider and the
\* stores answer both, including when the callee's directory row has a null
\* status.
C36_RefactoredSameOutcome ==
  ( /\ wh[OriginalRun].pc = "done" /\ wh[RefactoredRun].pc = "done"
    /\ wh[OriginalRun].impl = "original"
    /\ wh[RefactoredRun].impl = "refactored"
    /\ wh[OriginalRun].p = wh[RefactoredRun].p
    /\ ~ExternalFailure(wh[OriginalRun])
    /\ ~ExternalFailure(wh[RefactoredRun]) )
  => Outcome(wh[OriginalRun]) = Outcome(wh[RefactoredRun])

\* the store after the original and after the refactored voice status
\* callback has written payload p to `table`
AfterOriginal(table, p) ==
  logCallStatus(table, clock,
                StatementOf("SignalWireController.voiceStatusCallback", p,
                            clock))
AfterRefactored(table, p) ==
  callStatusUpdateQuery(table, StatementOf("voiceStatusCallback", p, clock))

\* C37: for every voice status callback payload and prior store state, the
\* refactored StatusService.voiceStatusCallback leaves the same call record
\* (the time of writing aside) and publishes the same messages as the
\* original SignalWireController.voiceStatusCallback.
C37_SameRecordAndMessages ==
  /\ \A p \in VoiceStatusPayloads :
       WithoutTimestamp(AfterOriginal(call_logs, p))
         = WithoutTimestamp(AfterRefactored(call_logs, p))
  /\ \A d, e \in Deliveries :
       ( /\ wh[d].op = "SignalWireController.voiceStatusCallback"
         /\ wh[e].op = "voiceStatusCallback"
         /\ wh[d].p = wh[e].p
         /\ ProcessedOk(wh[d]) /\ ProcessedOk(wh[e]) )
       => wh[d].published = wh[e].published

\* the voice status callbacks among the deliveries
VoiceStatusDeliveries == {d \in Deliveries : wh[d].op \in VoiceStatusCallbacks}

\* C38: a voice status callback publishes call-ended exactly when its
\* CallStatus, compared case-insensitively, is one of completed, canceled,
\* busy, failed, no-answer: once, with the CallSid and the status as received,
\* and only after the call-record write has succeeded; while the write is
\* pending, and if it fails, the callback has published nothing.
C38_CallEndedWhenEnded ==
  \A d \in VoiceStatusDeliveries :
    LET h == wh[d]
        ended == toLowerCase(h.p.CallStatus) \in endedStatuses
    IN /\ ProcessedOk(h) =>
            PublishedOn(h, {"call-ended"})
              = IF ended THEN <<CallEnded(h.p.CallSid, h.p.CallStatus)>>
                ELSE <<>>
       /\ h.published # <<>> =>
            /\ ProcessedOk(h)
            /\ \E row \in call_logs : row.call_sid = h.p.CallSid
       /\ "call-ended" \in ChannelsOf(h) =>
            h.published[Len(h.published)].channel = "call-ended"
       /\ h.ret = "error" => h.published = <<>>

\* a callback whose status was spelled Completed has written the record and
\* announced the end of the call
C38_Witness ==
  \E d \in VoiceStatusDeliveries :
    /\ wh[d].p.CallStatus = "Completed"
    /\ ProcessedOk(wh[d])
    /\ "call-ended" \in ChannelsOf(wh[d])

\* the operations that write the call record through logCallStatus
LogCallStatusCallers ==
  {"hold", "resume", "hangup", "SignalWireController.voiceStatusCallback"}

\* the outbound-call-status messages invocation h has published
StatusMessages(h) == PublishedOn(h, {"outbound-call-status"})

\* C39: each logCallStatus invocation publishes exactly one
\* outbound-call-status message, carrying the callSid, status, from and to it
\* was called with, and only after the store write has succeeded: nothing is
\* out while the write is pending, every outbound-call-status on the bus
\* belongs to a stored record, and when the write fails none is published and
\* the caller ends with the error.
C39_OneStatusPerLoggedCall ==
  /\ \A d \in Deliveries :
       wh[d].op \in LogCallStatusCallers =>
         LET h == wh[d]
         IN /\ ProcessedOk(h) =>
                 StatusMessages(h) =
                   <<Message("outbound-call-status", h.values.callSid,
                             h.values.callStatus, h.values.from, h.values.to)>>
            /\ h.pc = "logCallStatus" => h.published = <<>>
            /\ h.ret = "error" =>
                 /\ h.published = <<>>
                 /\ h.pc = "done" /\ h.error = ErrorOf(h.op)
  /\ \A i \in DOMAIN emitted :
       emitted[i].channel = "outbound-call-status" =>
         \E row \in call_logs : row.call_sid = emitted[i].callSid

\* on a store that was empty, one voice status callback has failed on its
\* write while another has written and published its one message
C39_Witness ==
  \E d, e \in Deliveries :
    /\ wh[d].op = "SignalWireController.voiceStatusCallback"
    /\ wh[d].ret = "error"
    /\ wh[e].op \in LogCallStatusCallers
    /\ ProcessedOk(wh[e]) /\ Len(StatusMessages(wh[e])) = 1
    /\ store0 = {}

====
